---- MODULE Spec2Model ----
(***************************************************************************)
(* A verification model of YARW (an rsync implementation in Rust).         *)
(*                                                                         *)
(* The groups of state that are modelled, each driven by its own           *)
(* specifications:                                                         *)
(*   SpecDelta     the checksum / delta / reconstruction pipeline          *)
(*                 (algorithm/generator.rs, sender.rs, receiver.rs)        *)
(*   SpecFilter    the include/exclude filter engine (filter/*.rs)         *)
(*   SpecDecide    LocalTransport::should_sync as a function of its inputs *)
(*   SpecSync      one session of the local sync (transport/local.rs)      *)
(*   SpecResync    sessions of the local sync run one after another        *)
(*   SpecBackup    one session with --backup, on trees with backups to make*)
(*   SpecRoll      the rolling checksum over a sliding window              *)
(*                 (algorithm/checksum.rs)                                 *)
(*   SpecVarint    write_varint / read_varint (protocol/rsync_protocol.rs) *)
(*   SpecMux       the multiplexed stream (protocol/multiplex*.rs)         *)
(*   SpecNegotiate version::negotiate (protocol/version.rs)                *)
(*   SpecHandshake the handshakes of daemon and remote client              *)
(*                 (transport/daemon.rs, transport/remote.rs)              *)
(*   SpecFlist     the file-list codec (protocol/rsync_flist.rs)           *)
(*   SpecInplace   reconstruct_file_inplace on the destination itself      *)
(*   SpecMain      main: the exit status (main.rs)                         *)
(*   SpecLoad      LocalTransport::sync up to the first change on disk     *)
(*   SpecSession   one daemon session, byte by byte (transport/daemon.rs,  *)
(*                 daemon_client.rs, protocol/async_stream.rs)             *)
(*   SpecTasks     two sessions of one daemon on a common file system      *)
(*   SpecNdx       write_ndx / read_ndx (protocol/rsync_protocol.rs)       *)
(*   SpecCodec30   the varint30 and varlong30 codecs                       *)
(*   SpecCross     a frame written by one framer, read by the other        *)
(*   SpecPurge     the delete pass under filter rules (transport/local.rs) *)
(*   SpecParallel  the signatures computed block-parallel                  *)
(*                 (algorithm/parallel_checksum.rs)                        *)
(*   SpecPstream   the varints of ProtocolStream (protocol/stream.rs)      *)
(* A specification leaves the variables of the other groups at their idle  *)
(* values.                                                                 *)
(***************************************************************************)
EXTENDS Integers, Sequences, FiniteSets, TLC

VARIABLES
    \* ---- delta pipeline ------------------------------------------------
    dpc,        \* position in the pipeline: gen, delta, open, apply, finish, done
    fRef,       \* bytes of the reference file when the pipeline started
    fSrc,       \* bytes of the source file
    block_size, \* Generator / Sender / Receiver block_size
    checksums,  \* Vec<BlockChecksum> returned by generate_checksums
    delta,      \* Vec<DeltaInstruction> returned by compute_delta
    dfs,        \* the files the pipeline touches: base, out, tmp
    outPath,    \* the `output` argument of reconstruct_file: "out" or "base"
    recvBase,   \* the `base_file` argument: "base" (exists) or "none"
    instrIdx,   \* next instruction of the stream to apply (1-based)
    dresult,    \* what reconstruct_file returned: none, ok, err
    \* ---- filter engine -------------------------------------------------
    fpc,        \* idle, build (rules are being added), query
    patterns,   \* FilterEngine::patterns, in insertion order
    firstQuery, \* the first should_include call and its answer: <<>> or <<[path, verdict]>>
    lastQuery,  \* the latest should_include call and its answer
    \* ---- should_sync as a function ---------------------------------------
    decideIn,   \* <<>> or <<[options, S, D]>>: the arguments of one should_sync call
    decideOut,  \* what the call returned: none, transfer, skip
    \* ---- local sync driver ----------------------------------------------
    spc,        \* idle, start, before, transfer, after, done
    options,    \* the Options of the LocalTransport
    srcTree,    \* the source tree on disk: path -> entry
    dstTree,    \* the destination tree on disk: path -> entry
    srcTree0,   \* the source tree when the session started
    dstTree0,   \* the destination tree when the session started
    source_map, \* build_file_map of the source scan: path -> FileInfo
    dest_map,   \* build_file_map of the destination scan: path -> FileInfo
    todoXfer,   \* entries of source_map the per-file loop has not visited yet
    todoDel,    \* entries of dest_map the running delete pass has not visited yet
    deleted,    \* deleted.len() of the running delete pass
    stats,      \* SyncStats
    sresult,    \* what sync returned: none, ok, err
    run,        \* number of the sync call on these trees (1 = first)
    deletePasses, \* the calls of delete_extra_files so far, by position
    hist,       \* what has happened in the session, for the ordering properties
    bakTree,    \* the files in the --backup-dir directory, by file name
    \* ---- rolling checksum over a sliding window ----------------------
    rpc,        \* idle, init, roll, done
    rW,         \* the byte sequence W: explicit leading bytes, then a generated tail
    rL,         \* the window length L
    rI,         \* the offset i: how often roll is applied
    rk,         \* bytes the two update loops have consumed so far
    rj,         \* rolls applied so far
    rolled,     \* the RollingChecksum initialised over W[0..L], then rolled
    fresh,      \* the RollingChecksum initialised over W[i..i+L]
    \* ---- varint wire codec -------------------------------------------
    vpc,        \* idle, write, read, done
    vx,         \* the value given to write_varint
    vbytes,     \* the bytes write_varint wrote
    vres,       \* what read_varint returned on those bytes
    \* ---- multiplex framer (protocol/multiplex.rs, multiplex_io.rs) ---
    mpc,        \* "open", "reading", "eof" or "err"
    mvariant,   \* which implementation: "MultiplexIO" or "MultiplexWriter"
    mwire,      \* the inner stream: the frames written so far
    mpos,       \* the reader's position in the inner stream
    mbuf,       \* read_buffer, a range of the inner stream
    mout,       \* the bytes read() has returned, ranges of the inner stream
    msink,      \* the messages written to stderr
    mreads,     \* the number of read() calls made
    \* ---- version negotiation (protocol/version.rs) -------------------
    npc,        \* "call" or "done"
    nlocal,     \* local_version
    nremote,    \* remote_version
    nres,       \* what negotiate returned
    \* ---- session handshake (transport/remote.rs, daemon.rs) ----------
    hpc,        \* the next step of the handshake
    hrole,      \* "client" (RemoteTransport::sync) or "daemon" (handle_client)
    hremote,    \* the version the peer announced, <<>> before it is read
    hnegotiated, \* negotiated_version
    hlog,       \* what has been exchanged with the peer, in order
    hresult,    \* "" while running, then "ok", "io" or "incompatible"
    \* ---- file-list codec (protocol/rsync_flist.rs) -------------------
    lpc,        \* "send", "recv" or "done"
    lproto,     \* protocol_version
    lvarint,    \* use_varint_flags
    lfiles,     \* the entries to send
    lwire,      \* the bytes written by the sender
    lsstate,    \* the sender's FileListState
    lsent,      \* the number of entries sent
    lrpos,      \* the number of bytes the receiver has consumed
    lrstate,    \* the receiver's FileListState
    lrecv,      \* the entries received
    lresult,    \* "" while running, then "ok" or "err"
    \* ---- in-place reconstruction (algorithm/receiver.rs, transport/local.rs) ---
    ipc,        \* "delta", "open", "apply" or "done"
    iOld,       \* the destination's bytes before the transfer
    iSrc,       \* the source's bytes
    ibs,        \* block_size
    idelta,     \* the instruction stream
    ifile,      \* the destination file on disk
    iwbuf,      \* the bytes held in the BufWriter
    iwpos,      \* the offset of the writer's file handle
    iidx,       \* the index of the next instruction
    iresult,    \* "none", "ok" or "err"
    \* ---- main: the driver of the process -----------------------------
    epc,        \* init (before into_options), daemon, loop, exit
    edaemon,    \* options.daemon
    esources,   \* cli.source: for each source the transport main chooses for it
    eidx,       \* sources the loop has handled
    efatal,     \* the sync calls that returned Err to main, by position
    estatus,    \* the exit status of the process: <<>> while it runs
    \* ---- the head of sync: the filter rules are loaded ---------------
    gpc,        \* idle, canon, filter, mkdir, rest, done
    gopts,      \* the Options: dry_run, exclude, include, exclude_from, include_from
    gdest,      \* whether the destination directory exists
    gengine,    \* FilterEngine::patterns of the engine sync has built
    gmut,       \* the filesystem mutations of the session so far, in order
    gresult,    \* what sync returned: none, ok, Io, InvalidPattern
    \* ---- one daemon session: DaemonClient and handle_client ----------
    cprog,      \* what the client still has to do: stream operations, in order
    ccall,      \* the client: [kind, module, local_files, username, password]
    cleft,      \* entries of the server file list the client still has to read
    cres,       \* what the client returned: none, ok, err
    kpc,        \* handle_client: version, send_versions, ack, module, authreq, user, pass, transfer, count, records, end
    kmodules,   \* DaemonConfig::modules: module name -> ModuleConfig
    kmodule,    \* <<>> or <<name>>: the module the client asked for
    kuser,      \* <<>> or <<username>>: what authenticate read
    kauth,      \* <<>> or <<[username, password]>>: the pair authenticate accepted
    klisted,    \* the file list has been written to the client
    kleft,      \* records handle_file_transfer still has to read
    kwritten,   \* the fs::write calls of the session: [at, bytes], in order
    kres,       \* what handle_client returned: none, ok, err
    c2d,        \* bytes on the way from the client to the daemon
    d2c,        \* bytes on the way from the daemon to the client
    \* ---- two sessions of one daemon: RsyncDaemon::start --------------
    tdisk,      \* the files below the module paths: [module, name, data]
    tdisk0,     \* the files when the first client connected
    tsessions,  \* session -> [module, records the client sends]
    tpc,        \* session -> connect, transfer, records, end
    tlog,       \* session -> the messages of the session so far
    tnext,      \* session -> the record handle_file_transfer reads next
    \* ---- the index codec: write_ndx and read_ndx ---------------------
    xpc,        \* write, read, done
    xproto,     \* protocol_version of both sides
    xseq,       \* the indices to send, in order
    xwire,      \* the bytes write_ndx wrote
    xwstates,   \* the NdxState of the writer after each index written
    xpos,       \* the number of bytes of xwire read_ndx has consumed
    xout,       \* the indices read_ndx returned
    xrstates,   \* the NdxState of the reader after each index read
    xok,        \* no read_ndx has failed
    \* ---- the varint30 and varlong30 codecs ---------------------------
    qpc,        \* write, read, done
    qcodec,     \* varint30 or varlong30
    qx,         \* the value to write
    qbytes,     \* the bytes the writer wrote
    qread,      \* what the reader returned: [ok, v (an i64 as its 8 bytes), p]
    \* ---- a frame written by one framer and read by the other ---------
    ypc,        \* write, read, done
    ywriter,    \* the framer that writes: MultiplexIO or MultiplexWriter
    yreader,    \* the framer that reads: MultiplexIO or MultiplexReader
    ybuf,       \* the bytes given to write
    ywire,      \* the inner stream: the frames written
    yread,      \* what read_packet made of the inner stream
    \* ---- the delete pass of a sync with filter rules -----------------
    zpc,        \* start, delete, transfer, done
    zopts,      \* [dry_run, recursive, delete_after]
    zrules,     \* the patterns of the FilterEngine
    zsrc,       \* the source tree: path -> none, file, dir
    zdst,       \* the destination tree
    zdst0,      \* the destination tree before the sync
    zsmap,      \* the keys of source_map
    zdmap,      \* the keys of dest_map
    ztodo,      \* entries delete_extra_files has still to visit
    zpass,      \* delete_extra_files has run
    zres,       \* none, ok, err
    \* ---- algorithm/parallel_checksum.rs: blocks on a thread pool -----
    wpc,        \* position: "split", "map", "collect", "sequential", "done"
    wdata,      \* the bytes given to compute_block_checksums_parallel
    wbs,        \* block_size
    wblocks,    \* blocks: the enumerated chunks, <<idx, block>>
    wslots,     \* per block: <<>> or <<the BlockChecksum a worker produced>>
    wout,       \* the Vec collected
    wseq,       \* what generate_checksums returns for a file of the same bytes
    \* ---- protocol/stream.rs: ProtocolStream varints ------------------
    jpc,        \* position: "write", "read", "done"
    jval,       \* the i64 written, as its eight two's-complement bytes, high byte first
    jtail,      \* bytes that follow the varint on the stream
    jwire,      \* the bytes of the stream
    jread       \* what read_varint returned: [res, val, used]


deltaVars == <<dpc, fRef, fSrc, block_size, checksums, delta, dfs, outPath,
               recvBase, instrIdx, dresult>>

filterVars == <<fpc, patterns, firstQuery, lastQuery>>

decideVars == <<decideIn, decideOut>>

syncVars == <<spc, options, srcTree, dstTree, srcTree0, dstTree0, source_map,
              dest_map, todoXfer, todoDel, deleted, stats, sresult, run,
              deletePasses, hist, bakTree>>

rollVars == <<rpc, rW, rL, rI, rk, rj, rolled, fresh>>

varintVars == <<vpc, vx, vbytes, vres>>

muxVars == <<mpc, mvariant, mwire, mpos, mbuf, mout, msink, mreads>>

negotiateVars == <<npc, nlocal, nremote, nres>>

handshakeVars == <<hpc, hrole, hremote, hnegotiated, hlog, hresult>>

flistVars == <<lpc, lproto, lvarint, lfiles, lwire, lsstate, lsent, lrpos, lrstate, lrecv, lresult>>

inplaceVars == <<ipc, iOld, iSrc, ibs, idelta, ifile, iwbuf, iwpos, iidx, iresult>>

mainVars == <<epc, edaemon, esources, eidx, efatal, estatus>>

loadVars == <<gpc, gopts, gdest, gengine, gmut, gresult>>

sessionVars == <<cprog, ccall, cleft, cres, kpc, kmodules, kmodule, kuser, kauth, klisted, kleft, kwritten, kres, c2d, d2c>>

tasksVars == <<tdisk, tdisk0, tsessions, tpc, tlog, tnext>>

ndxVars == <<xpc, xproto, xseq, xwire, xwstates, xpos, xout, xrstates, xok>>

codec30Vars == <<qpc, qcodec, qx, qbytes, qread>>

crossVars == <<ypc, ywriter, yreader, ybuf, ywire, yread>>

purgeVars == <<zpc, zopts, zrules, zsrc, zdst, zdst0, zsmap, zdmap, ztodo, zpass, zres>>

parallelVars == <<wpc, wdata, wbs, wblocks, wslots, wout, wseq>>

pstreamVars == <<jpc, jval, jtail, jwire, jread>>

vars == <<deltaVars, filterVars, decideVars, syncVars, rollVars, varintVars, muxVars, negotiateVars, handshakeVars, flistVars, inplaceVars, mainVars, loadVars, sessionVars, tasksVars, ndxVars, codec30Vars, crossVars, purgeVars, parallelVars, pstreamVars>>

\* what an action of one group leaves alone
notDelta == <<filterVars, decideVars, syncVars, rollVars, varintVars, muxVars, negotiateVars, handshakeVars, flistVars, inplaceVars, mainVars, loadVars, sessionVars, tasksVars, ndxVars, codec30Vars, crossVars, purgeVars, parallelVars, pstreamVars>>
notFilter == <<deltaVars, decideVars, syncVars, rollVars, varintVars, muxVars, negotiateVars, handshakeVars, flistVars, inplaceVars, mainVars, loadVars, sessionVars, tasksVars, ndxVars, codec30Vars, crossVars, purgeVars, parallelVars, pstreamVars>>
notDecide == <<deltaVars, filterVars, syncVars, rollVars, varintVars, muxVars, negotiateVars, handshakeVars, flistVars, inplaceVars, mainVars, loadVars, sessionVars, tasksVars, ndxVars, codec30Vars, crossVars, purgeVars, parallelVars, pstreamVars>>
notSync == <<deltaVars, filterVars, decideVars, rollVars, varintVars, muxVars, negotiateVars, handshakeVars, flistVars, inplaceVars, mainVars, loadVars, sessionVars, tasksVars, ndxVars, codec30Vars, crossVars, purgeVars, parallelVars, pstreamVars>>
notRoll == <<deltaVars, filterVars, decideVars, syncVars, varintVars, muxVars, negotiateVars, handshakeVars, flistVars, inplaceVars, mainVars, loadVars, sessionVars, tasksVars, ndxVars, codec30Vars, crossVars, purgeVars, parallelVars, pstreamVars>>
notVarint == <<deltaVars, filterVars, decideVars, syncVars, rollVars, muxVars, negotiateVars, handshakeVars, flistVars, inplaceVars, mainVars, loadVars, sessionVars, tasksVars, ndxVars, codec30Vars, crossVars, purgeVars, parallelVars, pstreamVars>>
notMux == <<deltaVars, filterVars, decideVars, syncVars, rollVars, varintVars, negotiateVars, handshakeVars, flistVars, inplaceVars, mainVars, loadVars, sessionVars, tasksVars, ndxVars, codec30Vars, crossVars, purgeVars, parallelVars, pstreamVars>>
notNegotiate == <<deltaVars, filterVars, decideVars, syncVars, rollVars, varintVars, muxVars, handshakeVars, flistVars, inplaceVars, mainVars, loadVars, sessionVars, tasksVars, ndxVars, codec30Vars, crossVars, purgeVars, parallelVars, pstreamVars>>
notHandshake == <<deltaVars, filterVars, decideVars, syncVars, rollVars, varintVars, muxVars, negotiateVars, flistVars, inplaceVars, mainVars, loadVars, sessionVars, tasksVars, ndxVars, codec30Vars, crossVars, purgeVars, parallelVars, pstreamVars>>
notFlist == <<deltaVars, filterVars, decideVars, syncVars, rollVars, varintVars, muxVars, negotiateVars, handshakeVars, inplaceVars, mainVars, loadVars, sessionVars, tasksVars, ndxVars, codec30Vars, crossVars, purgeVars, parallelVars, pstreamVars>>
notInplace == <<deltaVars, filterVars, decideVars, syncVars, rollVars, varintVars, muxVars, negotiateVars, handshakeVars, flistVars, mainVars, loadVars, sessionVars, tasksVars, ndxVars, codec30Vars, crossVars, purgeVars, parallelVars, pstreamVars>>
notMain == <<deltaVars, filterVars, decideVars, syncVars, rollVars, varintVars, muxVars, negotiateVars, handshakeVars, flistVars, inplaceVars, loadVars, sessionVars, tasksVars, ndxVars, codec30Vars, crossVars, purgeVars, parallelVars, pstreamVars>>
notLoad == <<deltaVars, filterVars, decideVars, syncVars, rollVars, varintVars, muxVars, negotiateVars, handshakeVars, flistVars, inplaceVars, mainVars, sessionVars, tasksVars, ndxVars, codec30Vars, crossVars, purgeVars, parallelVars, pstreamVars>>
notSession == <<deltaVars, filterVars, decideVars, syncVars, rollVars, varintVars, muxVars, negotiateVars, handshakeVars, flistVars, inplaceVars, mainVars, loadVars, tasksVars, ndxVars, codec30Vars, crossVars, purgeVars, parallelVars, pstreamVars>>
notTasks == <<deltaVars, filterVars, decideVars, syncVars, rollVars, varintVars, muxVars, negotiateVars, handshakeVars, flistVars, inplaceVars, mainVars, loadVars, sessionVars, ndxVars, codec30Vars, crossVars, purgeVars, parallelVars, pstreamVars>>
notNdx == <<deltaVars, filterVars, decideVars, syncVars, rollVars, varintVars, muxVars, negotiateVars, handshakeVars, flistVars, inplaceVars, mainVars, loadVars, sessionVars, tasksVars, codec30Vars, crossVars, purgeVars, parallelVars, pstreamVars>>
notCodec30 == <<deltaVars, filterVars, decideVars, syncVars, rollVars, varintVars, muxVars, negotiateVars, handshakeVars, flistVars, inplaceVars, mainVars, loadVars, sessionVars, tasksVars, ndxVars, crossVars, purgeVars, parallelVars, pstreamVars>>
notCross == <<deltaVars, filterVars, decideVars, syncVars, rollVars, varintVars, muxVars, negotiateVars, handshakeVars, flistVars, inplaceVars, mainVars, loadVars, sessionVars, tasksVars, ndxVars, codec30Vars, purgeVars, parallelVars, pstreamVars>>
notPurge == <<deltaVars, filterVars, decideVars, syncVars, rollVars, varintVars, muxVars, negotiateVars, handshakeVars, flistVars, inplaceVars, mainVars, loadVars, sessionVars, tasksVars, ndxVars, codec30Vars, crossVars, parallelVars, pstreamVars>>
notParallel == <<deltaVars, filterVars, decideVars, syncVars, rollVars, varintVars, muxVars, negotiateVars, handshakeVars, flistVars, inplaceVars, mainVars, loadVars, sessionVars, tasksVars, ndxVars, codec30Vars, crossVars, purgeVars, pstreamVars>>
notPstream == <<deltaVars, filterVars, decideVars, syncVars, rollVars, varintVars, muxVars, negotiateVars, handshakeVars, flistVars, inplaceVars, mainVars, loadVars, sessionVars, tasksVars, ndxVars, codec30Vars, crossVars, purgeVars, parallelVars>>

-----------------------------------------------------------------------------
(* Bounds of the model.                                                    *)

\* longest file of the delta pipeline, in bytes
MaxLen == 4
\* largest block size of the delta pipeline
MaxBlock == 3
\* Capacity of the BufReader that generate_checksums wraps around the
\* reference file.  std's BufReader::new uses 8192 bytes; the model scales
\* it down together with the file lengths so that files longer than one
\* buffer exist within MaxLen.
DEFAULT_BUF_SIZE == 3

Bytes == {0, 1}

FileContents == UNION {[1..n -> Bytes] : n \in 0..MaxLen}

U16 == 65536

Min(a, b) == IF a < b THEN a ELSE b
Max(a, b) == IF a > b THEN a ELSE b

\* data[from..to] of Rust: zero-based, `to` exclusive
Slice(data, from, to) == [i \in 1..(to - from) |-> data[from + i]]

-----------------------------------------------------------------------------
(* algorithm/checksum.rs                                                   *)

\* RollingChecksum::update, folded over the bytes from (zero-based) i on
RECURSIVE update(_, _, _, _)
update(data, i, a, b) ==
    IF i >= Len(data) THEN [a |-> a, b |-> b, block_size |-> Len(data)]
    ELSE update(data, i + 1,
                (a + data[i + 1]) % U16,
                (b + ((((Len(data) - i) % U16) * data[i + 1]) % U16)) % U16)

RollingChecksumNew(data) == update(data, 0, 0, 0)

\* a roll that updates b with the sum a of the old window
roll_with_old_a(rc, old_byte, new_byte) ==
    [a |-> (rc.a - old_byte + new_byte) % U16,
     b |-> (rc.b - (((rc.block_size % U16) * old_byte) % U16) + rc.a) % U16,
     block_size |-> rc.block_size]

\* RollingChecksum::roll
roll(rc, old_byte, new_byte) ==
    LET a1 == (rc.a - old_byte + new_byte) % U16
    IN  [a |-> a1,
         b |-> (rc.b - (((rc.block_size % U16) * old_byte) % U16) + a1) % U16,
         block_size |-> rc.block_size]

\* RollingChecksum::checksum: (b << 16) | a.  The 32-bit value is kept as its
\* two 16-bit halves <<b, a>>, high half first.
checksum(rc) == <<rc.b, rc.a>>

\* The strong digest (MD4 / MD5 / BLAKE2b).  The digest is modelled
\* collision-free: it is determined by, and determines, the bytes hashed.
compute_strong_checksum(data) == [alg |-> "Md5", digest |-> data]

-----------------------------------------------------------------------------
(* std::io::BufReader as generate_checksums and reconstruct_file use it.   *)
(* rd = [pos: position of the inner file, avail: buffered bytes not yet    *)
(* consumed].  One call of read(&mut buf) with buf.len() = want:           *)
(*   - empty buffer and want >= capacity: read straight from the file;     *)
(*   - otherwise refill the buffer only when it is empty, then hand out    *)
(*     what is buffered, at most want bytes.                               *)
(* The result gives the number of bytes read, the file offset they came    *)
(* from, and the reader afterwards.                                        *)
BufReaderRead(file, rd, want, capacity) ==
    LET left   == Max(0, Len(file) - rd.pos)
        direct == rd.avail = 0 /\ want >= capacity
        filled == IF rd.avail = 0 THEN Min(capacity, left) ELSE rd.avail
        pos1   == IF rd.avail = 0 THEN rd.pos + filled ELSE rd.pos
        n      == IF direct THEN Min(want, left) ELSE Min(want, filled)
    IN  IF direct
        THEN [n |-> n, off |-> rd.pos, rd |-> [pos |-> rd.pos + n, avail |-> 0]]
        ELSE [n |-> n, off |-> pos1 - filled, rd |-> [pos |-> pos1, avail |-> filled - n]]

-----------------------------------------------------------------------------
(* algorithm/generator.rs                                                  *)

\* the loop of generate_checksums: one reader.read(&mut buffer) per block
RECURSIVE generate_loop(_, _, _, _, _)
generate_loop(file, bs, rd, index, acc) ==
    LET r == BufReaderRead(file, rd, bs, DEFAULT_BUF_SIZE)
        block == Slice(file, r.off, r.off + r.n)
    IN  IF r.n = 0 THEN acc
        ELSE generate_loop(file, bs, r.rd, index + 1,
                 Append(acc, [index  |-> index,
                              weak   |-> checksum(RollingChecksumNew(block)),
                              strong |-> compute_strong_checksum(block)]))

generate_checksums(file, bs) ==
    generate_loop(file, bs, [pos |-> 0, avail |-> 0], 0, <<>>)

-----------------------------------------------------------------------------
(* algorithm/delta.rs, algorithm/sender.rs                                 *)

matched_block(index) == [kind |-> "MatchedBlock", index |-> index, data |-> <<>>]
literal_data(data)   == [kind |-> "LiteralData", index |-> 0, data |-> data]

\* hash_table.get(&weak): the signatures with that weak value, in insertion order
build_hash_table(sigs, weak) ==
    LET SameWeak(c) == c.weak = weak
    IN  SelectSeq(sigs, SameWeak)

\* candidates.iter().find(|c| c.strong == strong): <<index>> of the first hit, or <<>>
find_candidate(sigs, weak, strong) ==
    LET SameStrong(c) == c.strong = strong
        hits == SelectSeq(build_hash_table(sigs, weak), SameStrong)
    IN  IF hits = <<>> THEN <<>> ELSE <<hits[1].index>>

\* the literal buffer flushed in front of a match (compression is off)
flush_literal(literal) ==
    IF literal = <<>> THEN <<>> ELSE <<literal_data(literal)>>

\* The rolling scan of compute_delta while a full block fits.
\* rolling is <<>> (None) or <<rc>> (Some).
RECURSIVE scan_loop(_, _, _, _, _, _, _)
scan_loop(buffer, bs, sigs, pos, literal, rolling, instrs) ==
    IF pos + bs > Len(buffer)
    THEN [pos |-> pos, literal |-> literal, instrs |-> instrs]
    ELSE
        LET block == Slice(buffer, pos, pos + bs)
            rc == IF rolling # <<>>
                  THEN roll(rolling[1], buffer[pos], buffer[pos + bs])
                  ELSE RollingChecksumNew(block)
            hit == find_candidate(sigs, checksum(rc), compute_strong_checksum(block))
        IN  IF hit # <<>>
            THEN scan_loop(buffer, bs, sigs, pos + bs, <<>>, <<>>,
                           instrs \o flush_literal(literal) \o <<matched_block(hit[1])>>)
            ELSE scan_loop(buffer, bs, sigs, pos + 1,
                           Append(literal, buffer[pos + 1]), <<rc>>, instrs)

compute_delta(buffer, sigs, bs) ==
    IF buffer = <<>> THEN <<>>
    ELSE
        LET s == scan_loop(buffer, bs, sigs, 0, <<>>, <<>>, <<>>)
            final_block == Slice(buffer, s.pos, Len(buffer))
            hit == IF s.pos < Len(buffer)
                   THEN find_candidate(sigs, checksum(RollingChecksumNew(final_block)),
                                       compute_strong_checksum(final_block))
                   ELSE <<>>
            \* instructions and literal buffer after the tail has been handled
            instrs1 == IF hit # <<>>
                       THEN s.instrs \o flush_literal(s.literal) \o <<matched_block(hit[1])>>
                       ELSE s.instrs
            literal1 == IF hit # <<>> THEN <<>>
                        ELSE IF s.pos < Len(buffer) THEN s.literal \o final_block
                        ELSE s.literal
        IN  instrs1 \o flush_literal(literal1)

-----------------------------------------------------------------------------
(* filesystem/buffer_optimizer.rs                                          *)

optimal_buffer_size(file_size) ==
    IF file_size < 64 * 1024 THEN 4 * 1024
    ELSE IF file_size < 1024 * 1024 THEN 64 * 1024
    ELSE IF file_size < 10 * 1024 * 1024 THEN 256 * 1024
    ELSE IF file_size < 100 * 1024 * 1024 THEN 512 * 1024
    ELSE 1024 * 1024

-----------------------------------------------------------------------------
(* algorithm/receiver.rs                                                   *)

Absent == [exists |-> FALSE, bytes |-> <<>>]
FileOf(bytes) == [exists |-> TRUE, bytes |-> bytes]

\* Where atomic mode writes: a fresh temporary file, never the output itself.
partial_path_inplace(output) == output
partial_path(output) == "tmp"

\* The bytes one instruction appends to the writer.  For a matched block:
\* seek the base reader to index * block_size, one read of block_size bytes.
instruction_bytes(base, instr, bs) ==
    IF instr.kind = "MatchedBlock"
    THEN LET r == BufReaderRead(base, [pos |-> instr.index * bs, avail |-> 0], bs,
                                optimal_buffer_size(Len(base)))
         IN  Slice(base, r.off, r.off + r.n)
    ELSE instr.data

\* GenerateChecksums: Generator::generate_checksums on the reference file
GenerateChecksums ==
    /\ dpc = "gen"
    /\ checksums' = generate_checksums(dfs["base"].bytes, block_size)
    /\ dpc' = "delta"
    /\ UNCHANGED <<fRef, fSrc, block_size, delta, dfs, outPath, recvBase, instrIdx, dresult>>
    /\ UNCHANGED notDelta

\* ComputeDelta: Sender::compute_delta on the source file
ComputeDelta ==
    /\ dpc = "delta"
    /\ delta' = compute_delta(fSrc, checksums, block_size)
    /\ dpc' = "open"
    /\ UNCHANGED <<fRef, fSrc, block_size, checksums, dfs, outPath, recvBase, instrIdx, dresult>>
    /\ UNCHANGED notDelta

\* reconstruct_file up to the instruction loop: the temporary file is created
\* (File::create truncates whatever is at partial_path).
ReconstructOpen ==
    /\ dpc = "open"
    /\ dfs' = [dfs EXCEPT ![partial_path(outPath)] = FileOf(<<>>)]
    /\ instrIdx' = 1
    /\ dpc' = "apply"
    /\ UNCHANGED <<fRef, fSrc, block_size, checksums, delta, outPath, recvBase, dresult>>
    /\ UNCHANGED notDelta

\* NamedTempFile::new or File::create fails: Err, nothing was created.
ReconstructOpenFail ==
    /\ dpc = "open"
    /\ dresult' = "err"
    /\ dpc' = "done"
    /\ UNCHANGED <<fRef, fSrc, block_size, checksums, delta, dfs, outPath, recvBase, instrIdx>>
    /\ UNCHANGED notDelta

\* the error branch after the closure: remove_file(&partial_path)
remove_partial(fs, output) == [fs EXCEPT ![partial_path(output)] = Absent]

\* One instruction of the stream is applied to the writer.  A matched block
\* without a base reader ends the closure with Err, and the temporary file
\* is removed.
ApplyInstruction ==
    /\ dpc = "apply"
    /\ instrIdx <= Len(delta)
    /\ LET instr == delta[instrIdx]
           pp == partial_path(outPath)
       IN  IF instr.kind = "MatchedBlock" /\ recvBase = "none"
           THEN /\ dfs' = remove_partial(dfs, outPath)
                /\ dresult' = "err"
                /\ dpc' = "done"
                /\ UNCHANGED instrIdx
           ELSE /\ dfs' = [dfs EXCEPT ![pp] = FileOf(dfs[pp].bytes \o
                               instruction_bytes(dfs["base"].bytes, instr, block_size))]
                /\ instrIdx' = instrIdx + 1
                /\ UNCHANGED <<dresult, dpc>>
    /\ UNCHANGED <<fRef, fSrc, block_size, checksums, delta, outPath, recvBase>>
    /\ UNCHANGED notDelta

\* A seek, read or write of the current instruction, or the final flush,
\* fails with an I/O error: the closure returns Err, the temporary file is
\* removed.
ApplyIoError ==
    /\ dpc = "apply"
    /\ instrIdx <= Len(delta) + 1
    /\ dfs' = remove_partial(dfs, outPath)
    /\ dresult' = "err"
    /\ dpc' = "done"
    /\ UNCHANGED <<fRef, fSrc, block_size, checksums, delta, outPath, recvBase, instrIdx>>
    /\ UNCHANGED notDelta

\* The closure returned Ok: std::fs::rename(&partial_path, output).
ReconstructRename ==
    /\ dpc = "apply"
    /\ instrIdx = Len(delta) + 1
    /\ LET pp == partial_path(outPath)
       IN  dfs' = IF pp = outPath THEN dfs
                  ELSE [dfs EXCEPT ![outPath] = dfs[pp], ![pp] = Absent]
    /\ dresult' = "ok"
    /\ dpc' = "done"
    /\ UNCHANGED <<fRef, fSrc, block_size, checksums, delta, outPath, recvBase, instrIdx>>
    /\ UNCHANGED notDelta

\* The rename fails: `?` returns the error at once; nothing is renamed and the
\* temporary file is left behind.
ReconstructRenameFail ==
    /\ dpc = "apply"
    /\ instrIdx = Len(delta) + 1
    /\ dresult' = "err"
    /\ dpc' = "done"
    /\ UNCHANGED <<fRef, fSrc, block_size, checksums, delta, dfs, outPath, recvBase, instrIdx>>
    /\ UNCHANGED notDelta

NextDelta ==
    \/ GenerateChecksums
    \/ ComputeDelta
    \/ ReconstructOpen
    \/ ReconstructOpenFail
    \/ ApplyInstruction
    \/ ApplyIoError
    \/ ReconstructRename
    \/ ReconstructRenameFail


-----------------------------------------------------------------------------
(* filter/pattern.rs, filter/engine.rs                                     *)
(* Strings are sequences of one-character strings.                         *)

\* most rules in one engine
MaxRules == 3

\* the pattern strings given to add_exclude / add_include
PatternStrings ==
    { <<"b">>,              \* b       wildcard
      <<"*">>,              \* *       wildcard
      <<"d", "/">>,         \* d/      directory
      <<"/", "a">>,         \* /a      absolute
      <<"d", "/", "*">> }   \* d/*     pathful

\* the paths asked about (relative paths; one with a Windows separator)
QueryPaths ==
    { <<"a">>, <<"d">>, <<"d", "/", "a">>, <<"d", "\\", "b">>,
      <<"e", "/", "d", "/", "a">> }

starts_with(s, prefix) ==
    Len(s) >= Len(prefix) /\ SubSeq(s, 1, Len(prefix)) = prefix
ends_with(s, suffix) ==
    Len(s) >= Len(suffix) /\ SubSeq(s, Len(s) - Len(suffix) + 1, Len(s)) = suffix
str_contains(s, sub) ==
    \E i \in 1..(Len(s) - Len(sub) + 1) : SubSeq(s, i, i + Len(sub) - 1) = sub

RECURSIVE trim_end_matches(_, _)
trim_end_matches(s, c) ==
    IF s # <<>> /\ s[Len(s)] = c THEN trim_end_matches(SubSeq(s, 1, Len(s) - 1), c) ELSE s

RECURSIVE trim_start_matches(_, _)
trim_start_matches(s, c) ==
    IF s # <<>> /\ s[1] = c THEN trim_start_matches(Tail(s), c) ELSE s

\* str::replace('\\', "/")
replace_backslash(s) == [i \in 1..Len(s) |-> IF s[i] = "\\" THEN "/" ELSE s[i]]

\* str::split('/'): the components, empty ones included
RECURSIVE split_from(_, _, _)
split_from(s, i, cur) ==
    IF i > Len(s) THEN <<cur>>
    ELSE IF s[i] = "/" THEN <<cur>> \o split_from(s, i + 1, <<>>)
    ELSE split_from(s, i + 1, Append(cur, s[i]))

split(s) == split_from(s, 1, <<>>)

\* FilterPattern::parse_pattern: (normalized_pattern, match_type)
parse_pattern(pattern) ==
    IF ends_with(pattern, <<"/">>)
    THEN LET dir_name == trim_end_matches(pattern, "/")
         IN  [normalized |-> IF starts_with(pattern, <<"/">>)
                             THEN trim_start_matches(dir_name, "/") \o <<"/", "*", "*">>
                             ELSE <<"*", "*", "/">> \o dir_name \o <<"/", "*", "*">>,
              match_type |-> "Directory"]
    ELSE IF starts_with(pattern, <<"/">>)
    THEN [normalized |-> trim_start_matches(pattern, "/"), match_type |-> "Absolute"]
    ELSE [normalized |-> IF str_contains(pattern, <<"/">>)
                         THEN <<"{", ",", "*", "*", "/", "}">> \o pattern
                         ELSE <<"*", "*", "/">> \o pattern,
          match_type |-> "Wildcard"]

\* FilterPattern::new (every pattern string of the model compiles)
FilterPatternNew(pattern, pattern_type) ==
    [pattern            |-> pattern,
     pattern_type       |-> pattern_type,
     match_type         |-> parse_pattern(pattern).match_type,
     normalized_pattern |-> parse_pattern(pattern).normalized]

\* globset's parser on the globs that occur: a leading **/ is a recursive
\* prefix, a trailing /** a recursive suffix, * any run of characters,
\* ? any one character (the default builder lets both cross a separator).
RECURSIVE glob_tokens(_, _)
glob_tokens(g, i) ==
    IF i > Len(g) THEN <<>>
    ELSE IF i = 1 /\ starts_with(g, <<"*", "*", "/">>)
         THEN <<"RecursivePrefix">> \o glob_tokens(g, 4)
    ELSE IF i > 1 /\ i + 2 = Len(g) /\ SubSeq(g, i, i + 2) = <<"/", "*", "*">>
         THEN <<"RecursiveSuffix">>
    ELSE IF g[i] = "*" THEN <<"ZeroOrMore">> \o glob_tokens(g, i + 1)
    ELSE IF g[i] = "?" THEN <<"Any">> \o glob_tokens(g, i + 1)
    ELSE <<g[i]>> \o glob_tokens(g, i + 1)

\* the compiled matcher on a whole string
RECURSIVE tokens_match(_, _)
tokens_match(toks, s) ==
    IF toks = <<>> THEN s = <<>>
    ELSE LET t == Head(toks)
             rest == Tail(toks)
         IN  CASE t = "RecursivePrefix" ->
                    \E k \in 0..Len(s) :
                        /\ (k = 0 \/ s[k] = "/")
                        /\ tokens_match(rest, SubSeq(s, k + 1, Len(s)))
               [] t = "RecursiveSuffix" -> s # <<>> /\ s[1] = "/"
               [] t = "ZeroOrMore" ->
                    \E k \in 0..Len(s) : tokens_match(rest, SubSeq(s, k + 1, Len(s)))
               [] t = "Any" -> s # <<>> /\ tokens_match(rest, Tail(s))
               [] OTHER -> s # <<>> /\ s[1] = t /\ tokens_match(rest, Tail(s))

\* GlobMatcher::is_match
glob_is_match(g, s) == tokens_match(glob_tokens(g, 1), s)

\* glob_match_simple: one pattern component against one path component
glob_match_simple(pattern_part, text) == glob_is_match(pattern_part, text)

\* the directory special case of matches: Some(dir_name) as <<dir_name>>
strip_dir_name(normalized) ==
    IF starts_with(normalized, <<"*", "*", "/">>)
       /\ ends_with(SubSeq(normalized, 4, Len(normalized)), <<"/", "*", "*">>)
    THEN <<SubSeq(normalized, 4, Len(normalized) - 3)>>
    ELSE <<>>

\* the window of path components that must match a pathful pattern
parts_match(pattern_parts, path_parts, i) ==
    \A j \in 1..Len(pattern_parts) :
        glob_match_simple(pattern_parts[j], path_parts[i + j])

\* FilterPattern::matches
matches(fp, path) ==
    LET path_str == replace_backslash(path)
        dn == IF fp.match_type = "Directory"
              THEN strip_dir_name(fp.normalized_pattern) ELSE <<>>
        dir_hit ==
            /\ dn # <<>>
            /\ \/ path_str = dn[1]
               \/ starts_with(path_str, dn[1] \o <<"/">>)
               \/ /\ str_contains(path_str, <<"/">> \o dn[1])
                  /\ \E k \in 1..Len(split(path_str)) : split(path_str)[k] = dn[1]
        pathful ==
            /\ str_contains(fp.pattern, <<"/">>)
            /\ ~ends_with(fp.pattern, <<"/">>)
            /\ ~starts_with(fp.pattern, <<"/">>)
        pattern_parts == split(fp.pattern)
        path_parts == split(path_str)
    IN  IF dir_hit THEN TRUE
        ELSE IF pathful
        THEN /\ Len(path_parts) >= Len(pattern_parts)
             /\ \E i \in 0..(Len(path_parts) - Len(pattern_parts)) :
                    /\ parts_match(pattern_parts, path_parts, i)
                    /\ i + Len(pattern_parts) = Len(path_parts)
        ELSE glob_is_match(fp.normalized_pattern, path_str)

\* the loop of should_include from rule i on
RECURSIVE should_include_from(_, _, _)
should_include_from(rules, path, i) ==
    IF i > Len(rules) THEN TRUE
    ELSE IF matches(rules[i], path) THEN rules[i].pattern_type = "Include"
    ELSE should_include_from(rules, path, i + 1)

\* a should_include that lets the last matching rule decide
RECURSIVE should_include_last_from(_, _, _)
should_include_last_from(rules, path, i) ==
    IF i < 1 THEN TRUE
    ELSE IF matches(rules[i], path) THEN rules[i].pattern_type = "Include"
    ELSE should_include_last_from(rules, path, i - 1)

should_include_last_match(rules, path) == should_include_last_from(rules, path, Len(rules))

\* a should_include that returns after looking at the first rule only
should_include_first_rule_only(rules, path) ==
    IF rules = <<>> THEN TRUE
    ELSE IF matches(rules[1], path) THEN rules[1].pattern_type = "Include"
    ELSE TRUE

\* FilterEngine::should_include
should_include(rules, path) ==
    IF rules = <<>> THEN TRUE ELSE should_include_from(rules, path, 1)

\* FilterEngine::add_exclude
add_exclude(pattern) ==
    /\ fpc = "build"
    /\ Len(patterns) < MaxRules
    /\ patterns' = Append(patterns, FilterPatternNew(pattern, "Exclude"))
    /\ UNCHANGED <<fpc, firstQuery, lastQuery>>
    /\ UNCHANGED notFilter

\* FilterEngine::add_include
add_include(pattern) ==
    /\ fpc = "build"
    /\ Len(patterns) < MaxRules
    /\ patterns' = Append(patterns, FilterPatternNew(pattern, "Include"))
    /\ UNCHANGED <<fpc, firstQuery, lastQuery>>
    /\ UNCHANGED notFilter

\* a call of should_include on the finished engine (&self: the engine is not
\* changed); the call and its answer are recorded
QueryShouldInclude(path) ==
    /\ fpc \in {"build", "query"}
    /\ fpc' = "query"
    /\ LET q == [path |-> path, verdict |-> should_include(patterns, path)]
       IN  /\ lastQuery' = <<q>>
           /\ firstQuery' = IF firstQuery = <<>> THEN <<q>> ELSE firstQuery
    /\ UNCHANGED patterns
    /\ UNCHANGED notFilter

NextFilter ==
    \/ \E p \in PatternStrings : add_exclude(p)
    \/ \E p \in PatternStrings : add_include(p)
    \/ \E path \in QueryPaths : QueryShouldInclude(path)


-----------------------------------------------------------------------------
(* transport/local.rs: should_sync                                         *)

\* the Options fields the local driver reads, all at their defaults
DefaultOptions ==
    [dry_run |-> FALSE, delete |-> FALSE, delete_before |-> FALSE,
     delete_during |-> FALSE, delete_after |-> FALSE, update |-> FALSE,
     size_only |-> FALSE, checksum |-> FALSE, backup |-> FALSE,
     remove_source_files |-> FALSE, whole_file |-> FALSE, recursive |-> FALSE,
     backup_dir |-> <<>>]

\* Option<&FileInfo> None
NoInfo == [kind |-> "none", size |-> 0, mtime |-> 0]

\* LocalTransport::compute_file_checksum: the strong digest of the file's bytes
compute_file_checksum(bytes) == compute_strong_checksum(bytes).digest

\* should_sync with the update test written as >= 
should_sync_update_ge(opts, source_info, dest_info, source_bytes, dest_bytes) ==
    IF dest_info.kind = "none" THEN TRUE
    ELSE IF opts.update /\ dest_info.mtime >= source_info.mtime THEN FALSE
    ELSE IF opts.size_only THEN source_info.size # dest_info.size
    ELSE IF opts.checksum
         THEN compute_file_checksum(source_bytes) # compute_file_checksum(dest_bytes)
    ELSE source_info.size # dest_info.size \/ source_info.mtime # dest_info.mtime

\* LocalTransport::should_sync.  source_info and dest_info are the FileInfo of
\* the scans (dest_info NoInfo for None); the bytes are what the two files
\* hold on disk when the checksum comparison reads them.
should_sync(opts, source_info, dest_info, source_bytes, dest_bytes) ==
    IF dest_info.kind = "none" THEN TRUE
    ELSE IF opts.update /\ dest_info.mtime > source_info.mtime THEN FALSE
    ELSE IF opts.size_only THEN source_info.size # dest_info.size
    ELSE IF opts.checksum
         THEN compute_file_checksum(source_bytes) # compute_file_checksum(dest_bytes)
    ELSE source_info.size # dest_info.size \/ source_info.mtime # dest_info.mtime

\* FileInfo::from_metadata of a regular file
FileInfoOf(bytes, mtime) == [kind |-> "file", size |-> Len(bytes), mtime |-> mtime]

\* the files should_sync is asked about: contents and modification times
DecideBytes == {<<0>>, <<1>>, <<0, 1>>}
DecideMTimes == {1, 2, 3}
DecideFiles == [bytes : DecideBytes, mtime : DecideMTimes]
DecideOptions ==
    {[DefaultOptions EXCEPT !.update = u, !.size_only = s, !.checksum = c] :
        u \in BOOLEAN, s \in BOOLEAN, c \in BOOLEAN}

\* one call of should_sync
Decide ==
    /\ decideIn # <<>>
    /\ decideOut = "none"
    /\ LET a == decideIn[1]
           dest_info == IF a.D = <<>> THEN NoInfo
                        ELSE FileInfoOf(a.D[1].bytes, a.D[1].mtime)
           dest_bytes == IF a.D = <<>> THEN <<>> ELSE a.D[1].bytes
       IN  decideOut' = IF should_sync(a.options, FileInfoOf(a.S.bytes, a.S.mtime),
                                       dest_info, a.S.bytes, dest_bytes)
                        THEN "transfer" ELSE "skip"
    /\ UNCHANGED decideIn
    /\ UNCHANGED notDecide

NextDecide ==
    \/ Decide

-----------------------------------------------------------------------------
(* The file trees of the local sync driver.                                *)
(* A tree maps each relative path to what is there: nothing, a directory,  *)
(* or a regular file with its bytes and modification time.  "" is the      *)
(* root of the tree, which the recursive scan lists too; f~, d/f~ and d/g~ *)
(* are where --backup (suffix "~") puts the previous f, d/f and d/g.       *)

SyncPaths == {"", "f", "d", "d/f", "d/g", "f~", "d/f~", "d/g~"}

\* Path::parent of destination.join(p), relative to the destination
parent(p) == IF p \in {"d/f", "d/g", "d/f~", "d/g~"} THEN "d" ELSE ""

\* Path::file_name
file_name(p) ==
    IF p \in {"f", "d/f"} THEN "f" ELSE IF p \in {"f~", "d/f~"} THEN "f~"
    ELSE IF p = "d/g" THEN "g" ELSE IF p = "d/g~" THEN "g~" ELSE p

\* p is q or lies below q
under(p, q) == p = q \/ q = "" \/ (q = "d" /\ parent(p) = "d")

NoEntry == [kind |-> "none", bytes |-> <<>>, mtime |-> 0]
DirEntry == [kind |-> "dir", bytes |-> <<>>, mtime |-> 0]
FileEntry(bytes, mtime) == [kind |-> "file", bytes |-> bytes, mtime |-> mtime]

\* the modification time the file system gives a file written during a
\* session: later than every modification time of the initial trees
Now == 4

\* Path::exists
exists(tree, p) == tree[p].kind # "none"

\* std::fs::create_dir_all: p and every missing ancestor become directories
create_dir_all(tree, p) ==
    [q \in SyncPaths |-> IF under(p, q) /\ tree[q].kind = "none" THEN DirEntry ELSE tree[q]]

\* std::fs::copy(from, to) where the file is tree_from[from]: the bytes are
\* copied into a file written now (the unix implementation copies contents
\* and permission bits, not the modification time)
fs_copy(tree_from, from, tree_to, to) ==
    [tree_to EXCEPT ![to] = FileEntry(tree_from[from].bytes, Now)]

\* std::fs::remove_file
remove_file(tree, p) == [tree EXCEPT ![p] = NoEntry]

\* std::fs::remove_dir_all: the directory and everything below it
remove_dir_all(tree, p) ==
    [q \in SyncPaths |-> IF under(q, p) THEN NoEntry ELSE tree[q]]

\* FileInfo::from_metadata
from_metadata(entry) ==
    [kind |-> entry.kind, size |-> Len(entry.bytes), mtime |-> entry.mtime]

\* Scanner::scan of a directory.  Recursive (WalkDir): every entry of the
\* tree, the root included.  Not recursive (read_dir): the entries directly
\* in the root, without the root.  Nothing when the root does not exist.
scan(tree, recursive) ==
    [p \in SyncPaths |->
        IF recursive \/ (p # "" /\ parent(p) = "") THEN from_metadata(tree[p]) ELSE NoInfo]

\* build_file_map with the engine of these sessions, which holds no rule:
\* should_include is true for every path, every scanned entry is kept
build_file_map(files) == files

\* the relative paths a file map holds
keys(map) == {p \in SyncPaths : map[p].kind # "none"}

\* a delete pass that only looks at regular files
extra_files_only(smap, dmap) ==
    {p \in keys(dmap) : p \notin keys(smap) /\ dmap[p].kind = "file"}

\* the entries delete_extra_files acts on: in dest_map, not in source_map
extra_entries(smap, dmap) == {p \in keys(dmap) : p \notin keys(smap)}

\* create_backup without --backup-dir: the file is copied to <name><suffix>
\* in the destination tree.  With --backup-dir the tree is left alone.
backup_path(p) == p \o "~"
create_backup(opts, tree, p) ==
    IF opts.backup_dir = <<>> THEN fs_copy(tree, p, tree, backup_path(p)) ELSE tree

\* the backup directory: file names to files
BackupNames == {"f", "g", "f~", "g~"}
NoBackups == [n \in BackupNames |-> NoEntry]

\* create_backup with --backup-dir: the file is copied to
\* backup_dir.join(file.file_name())
create_backup_in_dir(opts, tree, backups, p) ==
    IF opts.backup_dir = <<>> THEN backups
    ELSE [backups EXCEPT ![file_name(p)] = FileEntry(tree[p].bytes, Now)]

\* floor of the square root
isqrt(n) == CHOOSE r \in 0..n : r * r <= n /\ (r + 1) * (r + 1) > n

\* Generator::calculate_block_size
calculate_block_size(file_size) ==
    IF file_size = 0 THEN 700
    ELSE Min(Max(isqrt(file_size), 700), 128 * 1024)

\* the instruction loop of reconstruct_file on the whole stream
RECURSIVE apply_delta(_, _, _, _)
apply_delta(base, instrs, bs, i) ==
    IF i > Len(instrs) THEN <<>>
    ELSE instruction_bytes(base, instrs[i], bs) \o apply_delta(base, instrs, bs, i + 1)

\* sync_file's delta branch: signatures of the destination, delta of the
\* source against them, reconstruction over the destination
delta_transfer(source_bytes, dest_bytes) ==
    LET bs == calculate_block_size(Len(source_bytes))
        sigs == generate_checksums(dest_bytes, bs)
    IN  apply_delta(dest_bytes, compute_delta(source_bytes, sigs, bs), bs, 1)

\* LocalTransport::sync_file (all calls succeed): the destination tree afterwards
sync_file(opts, stree, dtree, p, base_info) ==
    LET d1 == create_dir_all(dtree, parent(p))
        d2 == IF opts.backup /\ exists(d1, p) THEN create_backup(opts, d1, p) ELSE d1
    IN  IF opts.whole_file \/ base_info.kind = "none"
        THEN fs_copy(stree, p, d2, p)
        ELSE [d2 EXCEPT ![p] = FileEntry(delta_transfer(stree[p].bytes, d2[p].bytes), Now)]

\* LocalTransport::sync_file (all calls succeed): the backup directory
\* afterwards
sync_file_backups(opts, dtree, backups, p) ==
    IF opts.backup /\ exists(dtree, p)
    THEN create_backup_in_dir(opts, dtree, backups, p) ELSE backups

\* a variant that unlinks the source in a dry run too
source_after_any_run(opts, stree, p, transferred, unlink_ok) ==
    IF transferred /\ opts.remove_source_files /\ unlink_ok
    THEN remove_file(stree, p) ELSE stree

\* the source tree after one file of the per-file loop: with
\* remove_source_files the source is unlinked once sync_file has returned
\* Ok; not in a dry run, not when the file was skipped.  A failing
\* remove_file leaves the source as it is.
source_after(opts, stree, p, transferred, unlink_ok) ==
    IF transferred /\ ~opts.dry_run /\ opts.remove_source_files /\ unlink_ok
    THEN remove_file(stree, p) ELSE stree

-----------------------------------------------------------------------------
(* transport/local.rs: LocalTransport::sync                                *)

\* most sync calls in a row on one pair of trees
MaxRuns == 2

NoStats == [transferred_files |-> 0, deleted_files |-> 0, unchanged_files |-> 0]

NoHist == [xferSeen |-> FALSE, delSeen |-> FALSE, delAfterXfer |-> FALSE,
           xferAfterDel |-> FALSE, deletedSourceEntry |-> FALSE,
           overwritten |-> {}, unlinkFailed |-> {}, afterFailedUnlink |-> {}]

NoMap == [p \in SyncPaths |-> NoInfo]

\* the condition in front of the first delete_extra_files call
should_delete_before(opts) ==
    opts.delete /\ (opts.delete_before \/ opts.delete_during)

\* should_delete_after
should_delete_after(opts) ==
    opts.delete /\ (opts.delete_after \/ (~opts.delete_before /\ ~opts.delete_during))

\* sync up to the first loop: the destination directory is created, both
\* trees are scanned and the file maps built; with delete-before or
\* delete-during, delete_extra_files is entered.
SyncStart ==
    /\ spc = "start"
    /\ LET dst1 == IF ~exists(dstTree, "") /\ ~options.dry_run
                   THEN create_dir_all(dstTree, "") ELSE dstTree
           smap == build_file_map(scan(srcTree, options.recursive))
           dmap == build_file_map(scan(dst1, options.recursive))
       IN  /\ dstTree' = dst1
           /\ source_map' = smap
           /\ dest_map' = dmap
           /\ todoXfer' = keys(smap)
           /\ IF should_delete_before(options)
              THEN /\ spc' = "before"
                   /\ todoDel' = extra_entries(smap, dmap)
                   /\ deletePasses' = Append(deletePasses, "before")
              ELSE /\ spc' = "transfer"
                   /\ UNCHANGED <<todoDel, deletePasses>>
    /\ UNCHANGED <<options, srcTree, srcTree0, dstTree0, deleted, stats, sresult, run, hist>>
    /\ UNCHANGED bakTree
    /\ UNCHANGED notSync

\* One iteration of the loop of delete_extra_files that reaches an entry
\* which is not in source_map (the HashMap yields the entries in any order).
\* The removal fails when the entry is no longer there, and `?` ends sync.
DeleteExtra(p) ==
    /\ spc \in {"before", "after"}
    /\ p \in todoDel
    /\ IF options.dry_run
       THEN /\ deleted' = deleted + 1
            /\ todoDel' = todoDel \ {p}
            /\ UNCHANGED <<dstTree, spc, sresult, hist>>
       ELSE IF ~exists(dstTree, p)
       THEN /\ spc' = "done"
            /\ sresult' = "err"
            /\ UNCHANGED <<dstTree, deleted, todoDel, hist>>
       ELSE /\ dstTree' = IF dest_map[p].kind = "dir"
                          THEN remove_dir_all(dstTree, p)
                          ELSE remove_file(dstTree, p)
            /\ deleted' = deleted + 1
            /\ todoDel' = todoDel \ {p}
            /\ hist' = [hist EXCEPT
                          !.delSeen = TRUE,
                          !.delAfterXfer = @ \/ hist.xferSeen,
                          !.deletedSourceEntry = @ \/
                              \E q \in keys(source_map) :
                                  exists(dstTree, q) /\ ~exists(dstTree', q)]
            /\ UNCHANGED <<spc, sresult>>
    /\ UNCHANGED <<options, srcTree, srcTree0, dstTree0, source_map, dest_map,
                   todoXfer, stats, run, deletePasses>>
    /\ UNCHANGED bakTree
    /\ UNCHANGED notSync

\* delete_extra_files of the first position returned: stats.deleted_files =
\* deleted.len(), then the per-file loop starts
EndDeleteBefore ==
    /\ spc = "before"
    /\ todoDel = {}
    /\ stats' = [stats EXCEPT !.deleted_files = deleted]
    /\ deleted' = 0
    /\ spc' = "transfer"
    /\ UNCHANGED <<options, srcTree, dstTree, srcTree0, dstTree0, source_map, dest_map,
                   todoXfer, todoDel, sresult, run, deletePasses, hist>>
    /\ UNCHANGED bakTree
    /\ UNCHANGED notSync

\* One iteration of the per-file loop (the HashMap yields the entries in any
\* order), sync_file succeeding.  unlink_ok is whether remove_file of the
\* source succeeds; a failure is printed and logged (hist.unlinkFailed), and
\* the loop goes on.
TransferEntry(p, unlink_ok) ==
    /\ spc = "transfer"
    /\ p \in todoXfer
    /\ todoXfer' = todoXfer \ {p}
    /\ IF source_map[p].kind = "dir"
       THEN /\ dstTree' = IF ~exists(dstTree, p) /\ ~options.dry_run
                          THEN create_dir_all(dstTree, p) ELSE dstTree
            /\ UNCHANGED <<srcTree, stats, hist, bakTree>>
       ELSE IF should_sync(options, source_map[p], dest_map[p],
                           srcTree[p].bytes, dstTree[p].bytes)
       THEN /\ IF options.dry_run
               THEN UNCHANGED <<dstTree, hist, bakTree>>
               ELSE /\ dstTree' = sync_file(options, srcTree, dstTree, p, dest_map[p])
                    /\ bakTree' = sync_file_backups(options, dstTree, bakTree, p)
                    /\ hist' = [hist EXCEPT
                          !.xferSeen = TRUE,
                          !.xferAfterDel = @ \/ hist.delSeen,
                          !.overwritten =
                              IF dstTree[p].kind = "file"
                              THEN @ \cup {<<p, dstTree[p].bytes>>} ELSE @,
                          !.unlinkFailed =
                              IF options.remove_source_files /\ ~unlink_ok
                              THEN @ \cup {p} ELSE @,
                          !.afterFailedUnlink =
                              IF hist.unlinkFailed # {} THEN @ \cup {p} ELSE @]
            /\ srcTree' = source_after(options, srcTree, p, TRUE, unlink_ok)
            /\ stats' = [stats EXCEPT !.transferred_files = @ + 1]
       ELSE /\ stats' = [stats EXCEPT !.unchanged_files = @ + 1]
            /\ srcTree' = source_after(options, srcTree, p, FALSE, unlink_ok)
            /\ UNCHANGED <<dstTree, hist, bakTree>>
    /\ UNCHANGED <<spc, options, srcTree0, dstTree0, source_map, dest_map, todoDel,
                   deleted, sresult, run, deletePasses>>
    /\ UNCHANGED notSync

\* The per-file loop is over: with should_delete_after, delete_extra_files is
\* entered (with the file maps of the start of the session); otherwise sync
\* returns Ok(stats).
EndTransfers ==
    /\ spc = "transfer"
    /\ todoXfer = {}
    /\ IF should_delete_after(options)
       THEN /\ spc' = "after"
            /\ todoDel' = extra_entries(source_map, dest_map)
            /\ deleted' = 0
            /\ deletePasses' = Append(deletePasses, "after")
            /\ UNCHANGED sresult
       ELSE /\ spc' = "done"
            /\ sresult' = "ok"
            /\ UNCHANGED <<todoDel, deleted, deletePasses>>
    /\ UNCHANGED <<options, srcTree, dstTree, srcTree0, dstTree0, source_map, dest_map,
                   todoXfer, stats, run, hist>>
    /\ UNCHANGED bakTree
    /\ UNCHANGED notSync

\* delete_extra_files of the second position returned: stats.deleted_files +=
\* deleted.len(), and sync returns Ok(stats)
EndDeleteAfter ==
    /\ spc = "after"
    /\ todoDel = {}
    /\ stats' = [stats EXCEPT !.deleted_files = @ + deleted]
    /\ deleted' = 0
    /\ spc' = "done"
    /\ sresult' = "ok"
    /\ UNCHANGED <<options, srcTree, dstTree, srcTree0, dstTree0, source_map, dest_map,
                   todoXfer, todoDel, run, deletePasses, hist>>
    /\ UNCHANGED bakTree
    /\ UNCHANGED notSync

\* A call of the session fails with an I/O error before it changes anything:
\* `?` returns the error from sync.
SyncIoError ==
    /\ spc \in {"start", "before", "transfer", "after"}
    /\ spc' = "done"
    /\ sresult' = "err"
    /\ UNCHANGED <<options, srcTree, dstTree, srcTree0, dstTree0, source_map, dest_map,
                   todoXfer, todoDel, deleted, stats, run, deletePasses, hist>>
    /\ UNCHANGED bakTree
    /\ UNCHANGED notSync

\* sync is called again with the same options on the trees as they are now
SyncAgain ==
    /\ spc = "done"
    /\ sresult = "ok"
    /\ run < MaxRuns
    /\ run' = run + 1
    /\ spc' = "start"
    /\ sresult' = "none"
    /\ srcTree0' = srcTree
    /\ dstTree0' = dstTree
    /\ source_map' = NoMap
    /\ dest_map' = NoMap
    /\ todoXfer' = {}
    /\ todoDel' = {}
    /\ deleted' = 0
    /\ stats' = NoStats
    /\ deletePasses' = <<>>
    /\ hist' = NoHist
    /\ UNCHANGED <<options, srcTree, dstTree>>
    /\ UNCHANGED bakTree
    /\ UNCHANGED notSync

\* one session, with every delete option
NextSync ==
    \/ SyncStart
    \/ \E p \in SyncPaths : DeleteExtra(p)
    \/ EndDeleteBefore
    \/ \E p \in SyncPaths, unlink_ok \in BOOLEAN : TransferEntry(p, unlink_ok)
    \/ EndTransfers
    \/ EndDeleteAfter
    \/ SyncIoError

\* sessions in a row, without delete
NextResync ==
    \/ SyncStart
    \/ \E p \in SyncPaths, unlink_ok \in BOOLEAN : TransferEntry(p, unlink_ok)
    \/ EndTransfers
    \/ SyncIoError
    \/ SyncAgain

-----------------------------------------------------------------------------
(* algorithm/checksum.rs: RollingChecksum over a sliding window            *)
(* The two checksums that are compared are computed side by side: one      *)
(* step runs one iteration of the loop of update for each of them.         *)

\* W[k] (zero-based): the explicit bytes first, then the tail (mul * k + add) mod 256
ByteAt(w, k) ==
    IF k < Len(w.seq) THEN w.seq[k + 1] ELSE (w.mul * k + w.add) % 256

\* one iteration of the loop of update: byte is data[i], len is data.len()
update_byte(rc, len, i, byte) ==
    [a |-> (rc.a + byte) % U16,
     b |-> (rc.b + ((((len - i) % U16) * byte) % U16)) % U16,
     block_size |-> rc.block_size]

\* RollingChecksum::new on W[0..L] and on W[i..i+L]: one iteration of update each
RollingUpdateStep ==
    /\ rpc = "init"
    /\ rk < rL
    /\ rolled' = update_byte(rolled, rL, rk, ByteAt(rW, rk))
    /\ fresh' = update_byte(fresh, rL, rk, ByteAt(rW, rI + rk))
    /\ rk' = rk + 1
    /\ UNCHANGED <<rpc, rW, rL, rI, rj>>
    /\ UNCHANGED notRoll

\* both update loops are over
RollingUpdateDone ==
    /\ rpc = "init"
    /\ rk = rL
    /\ rpc' = IF rI = 0 THEN "done" ELSE "roll"
    /\ UNCHANGED <<rW, rL, rI, rk, rj, rolled, fresh>>
    /\ UNCHANGED notRoll

\* RollingChecksum::roll: W[j] leaves the window, W[j + L] enters it
RollingRoll ==
    /\ rpc = "roll"
    /\ rolled' = roll(rolled, ByteAt(rW, rj), ByteAt(rW, rj + rL))
    /\ rj' = rj + 1
    /\ rpc' = IF rj + 1 = rI THEN "done" ELSE "roll"
    /\ UNCHANGED <<rW, rL, rI, rk, fresh>>
    /\ UNCHANGED notRoll

NextRoll ==
    \/ RollingUpdateStep
    \/ RollingUpdateDone
    \/ RollingRoll

-----------------------------------------------------------------------------
(* protocol/rsync_protocol.rs: write_varint, read_varint                   *)

\* the little-endian two's complement bytes of val, n of them (n <= 4)
le_byte(val, k) ==
    LET \* val mod 2^31 as a non-negative number, and the sign bit
        low31 == IF val >= 0 THEN val ELSE (val + 2147483647) + 1
        b == IF k = 0 THEN low31 % 256
             ELSE IF k = 1 THEN (low31 \div 256) % 256
             ELSE IF k = 2 THEN (low31 \div 65536) % 256
             ELSE (low31 \div 16777216) % 256
    IN  IF k = 3 /\ val < 0 THEN b + 128 ELSE b

le_bytes(val, n) == [k \in 1..n |-> le_byte(val, k - 1)]

\* write_varint, for values of the i32 range
write_varint(val) ==
    IF val >= 0 /\ val <= 127 THEN <<val>>
    ELSE IF val >= -128 /\ val <= -1 THEN <<128>> \o le_bytes(val, 1)
    ELSE IF val >= 128 /\ val <= 32767 THEN <<129>> \o le_bytes(val, 2)
    ELSE IF val >= -32768 /\ val <= -129 THEN <<130>> \o le_bytes(val, 2)
    ELSE <<131>> \o le_bytes(val, 4)

\* INT_BYTE_EXTRA[ch / 4]
INT_BYTE_EXTRA(idx) ==
    IF idx < 32 THEN 0 ELSE IF idx < 48 THEN 1 ELSE IF idx < 56 THEN 2
    ELSE IF idx < 60 THEN 3 ELSE IF idx < 62 THEN 4 ELSE IF idx = 62 THEN 5 ELSE 6

\* i32::from_le_bytes
i32_from_le_bytes(b0, b1, b2, b3) ==
    b0 + 256 * b1 + 65536 * b2 + 16777216 * (IF b3 >= 128 THEN b3 - 256 ELSE b3)

\* read_varint on a reader that holds `input`: the value and the number of
\* bytes consumed, or an error when the reader runs dry
read_varint(input) ==
    IF input = <<>> THEN [ok |-> FALSE, value |-> 0, consumed |-> 0]
    ELSE
        LET ch == input[1]
            extra == INT_BYTE_EXTRA(ch \div 4)
            bit == 2 ^ (8 - extra)
            \* bytes[0..extra] from the reader, bytes[extra] = ch & (bit - 1)
            bytes == [k \in 1..(extra + 1) |->
                         IF k <= extra THEN input[1 + k] ELSE ch % bit]
            get(k) == IF k + 1 <= extra + 1 THEN bytes[k + 1] ELSE 0
        IN  IF extra = 0 THEN [ok |-> TRUE, value |-> ch, consumed |-> 1]
            ELSE IF Len(input) < 1 + extra
            THEN [ok |-> FALSE, value |-> 0, consumed |-> Len(input)]
            ELSE [ok |-> TRUE,
                  value |-> i32_from_le_bytes(get(0), get(1), get(2), get(3)),
                  consumed |-> 1 + extra]

\* write_varint(&mut buf, x)
WriteVarint ==
    /\ vpc = "write"
    /\ vbytes' = write_varint(vx)
    /\ vpc' = "read"
    /\ UNCHANGED <<vx, vres>>
    /\ UNCHANGED notVarint

\* read_varint(&mut &buf[..])
ReadVarint ==
    /\ vpc = "read"
    /\ vres' = read_varint(vbytes)
    /\ vpc' = "done"
    /\ UNCHANGED <<vx, vbytes>>
    /\ UNCHANGED notVarint

NextVarint ==
    \/ WriteVarint
    \/ ReadVarint

-----------------------------------------------------------------------------
(* protocol/multiplex_io.rs and protocol/multiplex.rs: the multiplex framer.

   The inner stream is a sequence of frames, each a 4-byte header and a
   payload.  A payload is kept as a window (an explicit prefix continued by
   a generator, as ByteAt reads it) and a length, so that a payload of 2^24
   bytes and more is a state the model can hold.  read_buffer and the bytes
   returned are ranges <<start, len>> of positions of the inner stream.    *)

MPLEX_BASE == 7
MSG_DATA == 0
\* 0x00FFFFFF + 1: the length field of the header has 24 bits
LenField == 16777216

\* the header as the four bytes on the inner stream.  The code builds the u32
\* (tag << 24) | (len as u32 & 0x00FFFFFF) and writes it little-endian
\* (MultiplexIO) or big-endian (MultiplexWriter); the tag and the three
\* bytes of the length are kept apart here.
header_bytes(variant, tag, len) ==
    LET length == len % LenField
        b0 == length % 256
        b1 == (length \div 256) % 256
        b2 == length \div 65536
    IN IF variant = "MultiplexIO" THEN <<b0, b1, b2, tag>>
                                  ELSE <<tag, b2, b1, b0>>

\* (header >> 24) as u8
header_tag(variant, hb) == IF variant = "MultiplexIO" THEN hb[4] ELSE hb[1]
\* (header & 0x00FFFFFF) as usize
header_length(variant, hb) ==
    IF variant = "MultiplexIO" THEN hb[1] + 256 * hb[2] + 65536 * hb[3]
                               ELSE hb[4] + 256 * hb[3] + 65536 * hb[2]

\* MultiplexIO::write / MultiplexWriter::write: the frame put on the inner
\* stream for buf, the first len bytes of window w
write_frame(variant, w, len) ==
    [hdr |-> header_bytes(variant, MPLEX_BASE + MSG_DATA, len),
     w |-> w, len |-> len, by |-> "write"]

RECURSIVE WireLen(_)
WireLen(wire) ==
    IF wire = <<>> THEN 0 ELSE 4 + Head(wire).len + WireLen(Tail(wire))

\* the byte at position pos of the inner stream
RECURSIVE WireAt(_, _)
WireAt(wire, pos) ==
    LET f == Head(wire)
    IN IF pos < 4 THEN f.hdr[pos + 1]
       ELSE IF pos < 4 + f.len THEN ByteAt(f.w, pos - 4)
       ELSE WireAt(Tail(wire), pos - 4 - f.len)

\* read_packet, run by the loop of read until read_buffer is not empty
\* (while self.read_buffer.is_empty() { match self.read_packet() ... })
RECURSIVE read_loop(_, _, _, _)
read_loop(variant, wire, pos, sink) ==
    LET avail == WireLen(wire) - pos
        hb == [k \in 1..4 |-> WireAt(wire, pos + k - 1)]
        tag == header_tag(variant, hb)
        length == header_length(variant, hb)
        msg_code == (tag + 256 - MPLEX_BASE) % 256
        eof == [res |-> "eof", pos |-> WireLen(wire),
                buf |-> [start |-> 0, len |-> 0], sink |-> sink]
        msg == [code |-> msg_code, start |-> pos + 4, len |-> length]
    IN IF avail < 4 THEN eof
       ELSE IF avail - 4 < length THEN eof
       ELSE IF msg_code # MSG_DATA THEN
           IF msg_code >= 1 /\ msg_code <= 3 THEN
               IF variant = "MultiplexIO"
               THEN [res |-> "err", pos |-> pos + 4 + length,
                     buf |-> [start |-> 0, len |-> 0],
                     sink |-> Append(sink, msg)]
               ELSE read_loop(variant, wire, pos + 4 + length,
                              Append(sink, msg))
           ELSE read_loop(variant, wire, pos + 4 + length,
                          IF variant = "MultiplexIO" THEN Append(sink, msg)
                                                     ELSE sink)
       ELSE IF length = 0 THEN read_loop(variant, wire, pos + 4, sink)
       ELSE [res |-> "ok", pos |-> pos + 4 + length,
             buf |-> [start |-> pos + 4, len |-> length], sink |-> sink]

\* a range appended to a sequence of ranges, adjacent ranges made one
AppendRange(rs, r) ==
    IF r.len = 0 THEN rs
    ELSE IF rs # <<>> /\ rs[Len(rs)].start + rs[Len(rs)].len = r.start
    THEN [rs EXCEPT ![Len(rs)].len = @ + r.len]
    ELSE Append(rs, r)

MaxFrames == 2
MaxReads == 4
\* the payloads of ordinary writes, the empty one among them
SmallPayloads ==
    {[seq |-> q, mul |-> 0, add |-> 0] :
        q \in {<<>>, <<65>>, <<65, 66>>, <<66, 65>>}}
\* the texts of message frames
MessageTexts == {[seq |-> q, mul |-> 0, add |-> 0] : q \in {<<>>, <<88>>}}
\* payloads at and above 2^24 bytes: all 0xFF, or "AB", a header and 0xFF
LargePayloads ==
    {[w |-> [seq |-> s, mul |-> 0, add |-> 255], len |-> l] :
        s \in {<<>>, <<65, 66, 1, 0, 0, 7, 67>>},
        l \in {LenField - 1, LenField, LenField + 2}}
\* the buffer sizes the callers pass to read
ReadSizes == {1, LenField}

\* MultiplexIO::write / MultiplexWriter::write
MuxWrite(w, len) ==
    /\ mpc = "open"
    /\ Len(mwire) < MaxFrames
    /\ mwire' = IF len = 0 THEN mwire
                ELSE Append(mwire, write_frame(mvariant, w, len))
    /\ UNCHANGED <<mpc, mvariant, mpos, mbuf, mout, msink, mreads>>
    /\ UNCHANGED notMux

\* the peer sends a message frame: tag MPLEX_BASE + code, a text payload
MuxPeerMessage(code, w) ==
    /\ mpc = "open"
    /\ Len(mwire) < MaxFrames
    /\ mwire' = Append(mwire,
                   [hdr |-> header_bytes(mvariant, MPLEX_BASE + code, Len(w.seq)),
                    w |-> w, len |-> Len(w.seq), by |-> "peer"])
    /\ UNCHANGED <<mpc, mvariant, mpos, mbuf, mout, msink, mreads>>
    /\ UNCHANGED notMux

\* the writing end is closed; the reader starts
MuxClose ==
    /\ mpc = "open"
    /\ mpc' = "reading"
    /\ UNCHANGED <<mvariant, mwire, mpos, mbuf, mout, msink, mreads>>
    /\ UNCHANGED notMux

\* MultiplexIO::read / MultiplexReader::read with a buffer of n bytes
MuxRead(n) ==
    /\ mpc = "reading"
    /\ mreads < MaxReads
    /\ mreads' = mreads + 1
    /\ LET r == IF mbuf.len = 0
                THEN read_loop(mvariant, mwire, mpos, msink)
                ELSE [res |-> "ok", pos |-> mpos, buf |-> mbuf, sink |-> msink]
           len == IF n < r.buf.len THEN n ELSE r.buf.len
       IN /\ mpos' = r.pos
          /\ msink' = r.sink
          /\ mpc' = IF r.res = "ok" THEN "reading" ELSE r.res
          /\ mout' = AppendRange(mout, [start |-> r.buf.start, len |-> len])
          /\ mbuf' = IF r.buf.len = len THEN [start |-> 0, len |-> 0]
                     ELSE [start |-> r.buf.start + len, len |-> r.buf.len - len]
    /\ UNCHANGED <<mvariant, mwire>>
    /\ UNCHANGED notMux

NextMux ==
    \/ \E w \in SmallPayloads : MuxWrite(w, Len(w.seq))
    \/ \E p \in LargePayloads : MuxWrite(p.w, p.len)
    \/ \E code \in 1..4, w \in MessageTexts : MuxPeerMessage(code, w)
    \/ MuxClose
    \/ \E n \in ReadSizes : MuxRead(n)

-----------------------------------------------------------------------------
(* protocol/version.rs *)

PROTOCOL_VERSION_MIN == 27
PROTOCOL_VERSION_MAX == 31

\* Ok(version) or Err(RsyncError::IncompatibleProtocol { local, remote })
NegotiateOk(v) == [ok |-> TRUE, version |-> v, local |-> 0, remote |-> 0]
IncompatibleProtocol(l, r) ==
    [ok |-> FALSE, version |-> 0, local |-> l, remote |-> r]

\* negotiate taking the newer of the two versions
negotiate_newer(local_version, remote_version) ==
    LET version == Max(local_version, remote_version)
    IN IF version >= PROTOCOL_VERSION_MIN THEN NegotiateOk(version)
       ELSE IncompatibleProtocol(local_version, remote_version)

\* ProtocolVersion::negotiate
negotiate(local_version, remote_version) ==
    LET version == Min(local_version, remote_version)
    IN IF version >= PROTOCOL_VERSION_MIN THEN NegotiateOk(version)
       ELSE IncompatibleProtocol(local_version, remote_version)

Negotiate ==
    /\ npc = "call"
    /\ nres' = negotiate(nlocal, nremote)
    /\ npc' = "done"
    /\ UNCHANGED <<nlocal, nremote>>
    /\ UNCHANGED notNegotiate

NextNegotiate == Negotiate

-----------------------------------------------------------------------------
(* The handshakes: transport/remote.rs, RemoteTransport::sync from the
   moment the remote command runs, and transport/daemon.rs, handle_client.
   hlog records what goes over the channel.  Every read and write can fail
   (the ? on each of them), which ends the session with an I/O error.      *)

Say(what) == hlog' = Append(hlog, what)

\* a read or a write of the channel fails
HsIoError ==
    /\ hpc \notin {"idle", "end"}
    /\ hpc' = "end"
    /\ hresult' = "io"
    /\ UNCHANGED <<hrole, hremote, hnegotiated, hlog>>
    /\ UNCHANGED notHandshake

\* remote.rs: channel.read_exact(&mut remote_version_bytes)
\* daemon.rs: let client_version = stream.read_i32().await?
HsReadVersion(v) ==
    /\ hpc = "read_version"
    /\ hremote' = <<v>>
    /\ Say("recv_version")
    /\ hpc' = "write_version"
    /\ UNCHANGED <<hrole, hnegotiated, hresult>>
    /\ UNCHANGED notHandshake

\* remote.rs: channel.write_all(&PROTOCOL_VERSION_MAX.to_le_bytes()) and
\*            negotiated_version = PROTOCOL_VERSION_MAX.min(remote_version)
\* daemon.rs: stream.write_i32(PROTOCOL_VERSION_MAX), twice, and the read of
\*            the client's acknowledgement
HsWriteVersion ==
    /\ hpc = "write_version"
    /\ Say("send_version")
    /\ hnegotiated' = IF hrole = "client"
                      THEN Min(PROTOCOL_VERSION_MAX, hremote[1]) ELSE hnegotiated
    /\ hpc' = IF hrole = "daemon" THEN "module"
              ELSE IF Min(PROTOCOL_VERSION_MAX, hremote[1]) >= 30 THEN "compat"
              ELSE "seed"
    /\ UNCHANGED <<hrole, hremote, hresult>>
    /\ UNCHANGED notHandshake

\* remote.rs: CompatFlags::read and, with CF_VARINT_FLIST_FLAGS, the
\* checksum and compression lists
HsCompatFlags(do_negotiated_strings) ==
    /\ hpc = "compat"
    /\ hlog' = IF do_negotiated_strings
               THEN hlog \o <<"recv_compat_flags", "algorithms">>
               ELSE Append(hlog, "recv_compat_flags")
    /\ hpc' = "seed"
    /\ UNCHANGED <<hrole, hremote, hnegotiated, hresult>>
    /\ UNCHANGED notHandshake

\* remote.rs: channel.read_exact(&mut checksum_seed_bytes)
HsChecksumSeed ==
    /\ hpc = "seed"
    /\ Say("recv_checksum_seed")
    /\ hpc' = "filter_list"
    /\ UNCHANGED <<hrole, hremote, hnegotiated, hresult>>
    /\ UNCHANGED notHandshake

\* remote.rs: exclude_list.send, with or without MultiplexIO
HsFilterList ==
    /\ hpc = "filter_list"
    /\ Say("send_filter_list")
    /\ hpc' = "file_list"
    /\ UNCHANGED <<hrole, hremote, hnegotiated, hresult>>
    /\ UNCHANGED notHandshake

\* daemon.rs: let module_name = stream.read_string(256).await?, the lookup
\* of the module and the authentication
HsModuleName(known, authenticated) ==
    /\ hpc = "module"
    /\ Say("recv_module_name")
    /\ hpc' = IF known /\ authenticated THEN "file_list" ELSE "end"
    /\ hresult' = IF known /\ authenticated THEN hresult ELSE "refused"
    /\ UNCHANGED <<hrole, hremote, hnegotiated>>
    /\ UNCHANGED notHandshake

\* remote.rs: send_file_list / recv_file_list
\* daemon.rs: handle_file_transfer, the file list written to the client
HsFileList ==
    /\ hpc = "file_list"
    /\ Say("file_list")
    /\ hpc' = "file_data"
    /\ UNCHANGED <<hrole, hremote, hnegotiated, hresult>>
    /\ UNCHANGED notHandshake

\* the transfer of the files, and the end of the session
HsFileData ==
    /\ hpc = "file_data"
    /\ Say("file_data")
    /\ hpc' = "end"
    /\ hresult' = "ok"
    /\ UNCHANGED <<hrole, hremote, hnegotiated>>
    /\ UNCHANGED notHandshake

\* the versions a peer may announce
PeerVersions == 20..35

NextHandshake ==
    \/ HsIoError
    \/ \E v \in PeerVersions : HsReadVersion(v)
    \/ HsWriteVersion
    \/ \E s \in BOOLEAN : HsCompatFlags(s)
    \/ HsChecksumSeed
    \/ HsFilterList
    \/ \E k \in BOOLEAN, a \in BOOLEAN : HsModuleName(k, a)
    \/ HsFileList
    \/ HsFileData

-----------------------------------------------------------------------------
(* protocol/rsync_flist.rs: send_file_entry and recv_file_entry, with the
   integer codecs of protocol/rsync_protocol.rs they call.

   The sender's numbers are naturals below 2^31.  What the receiver decodes
   is whatever the bytes say, a u32 or an i64 of any value: those are kept
   as their little-endian bytes (4 or 8 of them).                          *)

XMIT_TOP_DIR == 1
XMIT_SAME_MODE == 2
XMIT_EXTENDED_FLAGS == 4
XMIT_SAME_UID == 8
XMIT_SAME_GID == 16
XMIT_SAME_NAME == 32
XMIT_LONG_NAME == 64
XMIT_SAME_TIME == 128

\* (flags & bit) != 0, bit a power of two
HasFlag(flags, bit) == (flags \div bit) % 2 = 1

\* the low n bytes are le_bytes; an i64 is the i32 sign-extended
sign_bytes(b3, n) == [k \in 1..n |-> IF b3 >= 128 THEN 255 ELSE 0]
i64_bytes(val) == le_bytes(val, 4) \o sign_bytes(le_byte(val, 3), 4)
u32_bytes(val) == le_bytes(val, 4)

\* write_varlong30
write_varlong30(val) ==
    IF val < 0 THEN <<255>> \o i64_bytes(val)
    ELSE IF val < 16777216 THEN le_bytes(val, 3)
    ELSE <<254>> \o le_bytes(val, 4)

\* write_varint30
write_varint30(val) ==
    IF val < 0 \/ val >= 1073741824 THEN <<255>> \o i64_bytes(val)
    ELSE IF val < 65536 THEN le_bytes(val, 2)
    ELSE <<254>> \o le_bytes(val, 4)

\* reads at offset p of inp: the value, and the offset behind it
ReadFail(p) == [ok |-> FALSE, v |-> <<>>, p |-> p]
read_bytes(inp, p, n) ==
    IF n >= 0 /\ p + n <= Len(inp)
    THEN [ok |-> TRUE, v |-> SubSeq(inp, p + 1, p + n), p |-> p + n]
    ELSE ReadFail(p)

\* read_varint / read_varint30 (the two have the same body): an i32
read_varint_at(inp, p) ==
    CHOOSE res \in
        {LET r == read_varint(SubSeq(inp, q + 1, Len(inp)))
         IN [ok |-> r.ok, v |-> r.value, p |-> q + r.consumed] : q \in {p}} :
        TRUE

\* read_varlong30: an i64, as its 8 bytes
read_varlong30(inp, p) ==
    LET b == read_bytes(inp, p, 3)
        b1 == b.v[1]
        b2 == b.v[2]
        b3 == b.v[3]
        high == read_bytes(inp, p + 3, 4)
        val == read_bytes(inp, p + 3, 1)
    IN IF ~b.ok THEN ReadFail(p)
       ELSE IF b1 = 255 THEN
           \* (high << 16) | (b2 | (b3 << 8)), high an i32
           IF ~high.ok THEN ReadFail(p)
           ELSE [ok |-> TRUE, p |-> p + 7,
                 v |-> <<b2, b3>> \o high.v \o sign_bytes(high.v[4], 2)]
       ELSE IF b1 = 254 THEN
           \* ((val as i64) << 16) | (b2 | (b3 << 8)), val an i8
           IF ~val.ok THEN ReadFail(p)
           ELSE [ok |-> TRUE, p |-> p + 4,
                 v |-> <<b2, b3>> \o val.v \o sign_bytes(val.v[1], 5)]
       ELSE [ok |-> TRUE, p |-> p + 3, v |-> <<b1, b2, b3, 0, 0, 0, 0, 0>>]

\* String::from_utf8_lossy on bytes in which no valid multi-byte sequence
\* occurs (no byte in 0xC2..0xF4 is ever written by the sender at these
\* bounds): each byte from 0x80 up becomes U+FFFD
from_utf8_lossy(bytes) ==
    [i \in 1..Len(bytes) |-> IF bytes[i] < 128 THEN bytes[i] ELSE 65533]

RECURSIVE find_common_prefix(_, _)
find_common_prefix(s1, s2) ==
    IF s1 = <<>> \/ s2 = <<>> \/ Head(s1) # Head(s2) THEN 0
    ELSE 1 + find_common_prefix(Tail(s1), Tail(s2))

\* FileListState::new, with the sender's numbers and with the receiver's
FileListStateNew ==
    [last_name |-> <<>>, last_mode |-> 0, last_modtime |-> 0,
     last_uid |-> 0, last_gid |-> 0]
StateBits(st) ==
    [last_name |-> st.last_name, last_mode |-> u32_bytes(st.last_mode),
     last_modtime |-> i64_bytes(st.last_modtime),
     last_uid |-> u32_bytes(st.last_uid), last_gid |-> u32_bytes(st.last_gid)]

\* the flags send_file_entry computes
send_flags(entry, state, protocol_version) ==
    LET common_prefix_len == find_common_prefix(state.last_name, entry.path)
        suffix_len == Len(entry.path) - common_prefix_len
        f1 == IF common_prefix_len > 0 THEN XMIT_SAME_NAME ELSE 0
        f2 == IF suffix_len > 255 THEN XMIT_LONG_NAME ELSE 0
        f3 == IF entry.modtime = state.last_modtime THEN XMIT_SAME_TIME ELSE 0
        f4 == IF entry.mode = state.last_mode /\ state.last_mode # 0
              THEN XMIT_SAME_MODE ELSE 0
        f5 == IF entry.uid = state.last_uid /\ state.last_uid # 0
              THEN XMIT_SAME_UID ELSE 0
        f6 == IF entry.gid = state.last_gid /\ state.last_gid # 0
              THEN XMIT_SAME_GID ELSE 0
        f7 == IF entry.is_dir THEN XMIT_TOP_DIR ELSE 0
        flags == f1 + f2 + f3 + f4 + f5 + f6 + f7
        \* no flag above bit 7 is ever set: (flags >> 8) != 0 is false
    IN IF flags = 0 THEN XMIT_TOP_DIR ELSE flags

\* send_file_entry: the bytes written and the state left
send_file_entry(entry, state, protocol_version, use_varint_flags) ==
    LET flags == send_flags(entry, state, protocol_version)
        common_prefix_len == find_common_prefix(state.last_name, entry.path)
        suffix_len == Len(entry.path) - common_prefix_len
        has(bit) == HasFlag(flags, bit)
        w_flags ==
            IF use_varint_flags
            THEN write_varint(flags)
                 \o (IF has(XMIT_EXTENDED_FLAGS) THEN write_varint(0) ELSE <<>>)
            ELSE IF protocol_version >= 28 /\ has(XMIT_EXTENDED_FLAGS)
            THEN le_bytes(flags, 2)
            ELSE <<flags % 256>>
        w_name ==
            (IF has(XMIT_SAME_NAME) THEN <<common_prefix_len % 256>> ELSE <<>>)
            \o (IF has(XMIT_LONG_NAME) THEN write_varint30(suffix_len)
                ELSE <<suffix_len % 256>>)
            \o SubSeq(entry.path, common_prefix_len + 1, Len(entry.path))
        w_len == write_varlong30(entry.len)
        w_time ==
            IF has(XMIT_SAME_TIME) THEN <<>>
            ELSE IF protocol_version >= 30 THEN write_varlong30(entry.modtime)
            ELSE le_bytes(entry.modtime, 4)
        w_mode == IF has(XMIT_SAME_MODE) THEN <<>> ELSE u32_bytes(entry.mode)
        w_uid == IF has(XMIT_SAME_UID) THEN <<>>
                 ELSE IF protocol_version >= 30 THEN write_varint(entry.uid)
                 ELSE u32_bytes(entry.uid)
        w_gid == IF has(XMIT_SAME_GID) THEN <<>>
                 ELSE IF protocol_version >= 30 THEN write_varint(entry.gid)
                 ELSE u32_bytes(entry.gid)
        w_link ==
            IF entry.is_symlink /\ entry.symlink_target # <<>>
            THEN write_varint30(Len(entry.symlink_target[1]))
                 \o entry.symlink_target[1]
            ELSE <<>>
    IN [bytes |-> w_flags \o w_name \o w_len \o w_time \o w_mode \o w_uid
                  \o w_gid \o w_link,
        state |-> [last_name |-> entry.path, last_mode |-> entry.mode,
                   last_modtime |-> entry.modtime, last_uid |-> entry.uid,
                   last_gid |-> entry.gid]]

\* write_end_of_flist
write_end_of_flist(use_varint_flags) ==
    IF use_varint_flags THEN write_varint(0) ELSE <<0>>

\* (value as u16) of an i32
as_u16(v) == IF v >= 0 THEN v % 65536 ELSE ((v % 65536) + 65536) % 65536

NoFileEntry ==
    [path |-> <<>>, mode |-> <<>>, len |-> <<>>, modtime |-> <<>>,
     uid |-> <<>>, gid |-> <<>>, is_dir |-> FALSE, is_symlink |-> FALSE,
     symlink_target |-> <<>>]
RecvNone(p, state) == [res |-> "end", p |-> p, entry |-> NoFileEntry, state |-> state]
RecvErr(p, state) == [res |-> "err", p |-> p, entry |-> NoFileEntry, state |-> state]

\* recv_file_entry reading inp from offset p0.  "err" is a failed read, or
\* the panic of &state.last_name[..common_prefix_len] past the end.  The
\* function reads field after field; c is the reader after the fields read
\* so far: its offset, and what it has read.
recv_file_entry(inp, p0, state, protocol_version, use_varint_flags) ==
    LET u8(p) == read_bytes(inp, p, 1)
        Start == [st |-> "ok", p |-> p0, flags |-> 0, prefix |-> 0, n |-> 0,
                  name |-> <<>>, len |-> <<>>, modtime |-> <<>>,
                  mode |-> <<>>, uid |-> <<>>, gid |-> <<>>,
                  is_symlink |-> FALSE, target |-> <<>>]
        Err(c) == [c EXCEPT !.st = "err"]
        \* ---- flags, _xflags
        ReadFlags(c) ==
            LET fv == read_varint_at(inp, c.p)
                fb1 == u8(c.p)
                fb2 == u8(c.p + 1)
                extended == ~use_varint_flags /\ protocol_version >= 28
                            /\ fb1.ok
                            /\ HasFlag(fb1.v[1], XMIT_EXTENDED_FLAGS)
                flags_ok == IF use_varint_flags THEN fv.ok
                            ELSE IF extended THEN fb2.ok ELSE fb1.ok
                first == IF use_varint_flags THEN as_u16(fv.v) ELSE fb1.v[1]
                flags == IF extended THEN fb1.v[1] + 256 * fb2.v[1] ELSE first
                p1 == IF use_varint_flags THEN fv.p
                      ELSE IF extended THEN c.p + 2 ELSE c.p + 1
                xf == IF use_varint_flags /\ HasFlag(flags, XMIT_EXTENDED_FLAGS)
                      THEN read_varint_at(inp, p1)
                      ELSE [ok |-> TRUE, v |-> 0, p |-> p1]
            IN IF ~flags_ok THEN Err(c)
               ELSE IF first = 0 THEN [c EXCEPT !.st = "end", !.p = p1]
               ELSE IF ~xf.ok THEN Err(c)
               ELSE [c EXCEPT !.flags = flags, !.p = xf.p]
        \* ---- name
        ReadNameLen(c) ==
            LET cp == IF HasFlag(c.flags, XMIT_SAME_NAME) THEN u8(c.p)
                      ELSE [ok |-> TRUE, v |-> <<0>>, p |-> c.p]
                sl == IF HasFlag(c.flags, XMIT_LONG_NAME)
                      THEN read_varint_at(inp, cp.p)
                      ELSE LET b == u8(cp.p)
                           IN [ok |-> b.ok, v |-> IF b.ok THEN b.v[1] ELSE 0,
                               p |-> b.p]
            IN IF ~cp.ok \/ ~sl.ok THEN Err(c)
               ELSE [c EXCEPT !.prefix = cp.v[1], !.n = sl.v, !.p = sl.p]
        ReadName(c) ==
            LET path_bytes == read_bytes(inp, c.p, c.n)
            IN IF ~path_bytes.ok \/ c.prefix > Len(state.last_name)
               THEN Err(c)
               ELSE [c EXCEPT !.name = SubSeq(state.last_name, 1, c.prefix)
                                       \o from_utf8_lossy(path_bytes.v),
                              !.p = path_bytes.p]
        \* ---- len, modtime, mode, uid, gid
        ReadLen(c) ==
            LET len == read_varlong30(inp, c.p)
            IN IF ~len.ok THEN Err(c) ELSE [c EXCEPT !.len = len.v, !.p = len.p]
        ReadModtime(c) ==
            LET modtime ==
                    IF HasFlag(c.flags, XMIT_SAME_TIME)
                    THEN [ok |-> TRUE, v |-> state.last_modtime, p |-> c.p]
                    ELSE IF protocol_version >= 30
                    THEN read_varlong30(inp, c.p)
                    ELSE LET b == read_bytes(inp, c.p, 4)
                         IN IF b.ok
                            THEN [b EXCEPT !.v = b.v \o sign_bytes(b.v[4], 4)]
                            ELSE b
            IN IF ~modtime.ok THEN Err(c)
               ELSE [c EXCEPT !.modtime = modtime.v, !.p = modtime.p]
        u32(flag, last, c) ==
            IF HasFlag(c.flags, flag) THEN [ok |-> TRUE, v |-> last, p |-> c.p]
            ELSE IF protocol_version >= 30
            THEN LET r == read_varint_at(inp, c.p)
                 IN IF r.ok THEN [r EXCEPT !.v = le_bytes(r.v, 4)]
                    ELSE ReadFail(c.p)
            ELSE read_bytes(inp, c.p, 4)
        ReadMode(c) ==
            LET mode == IF HasFlag(c.flags, XMIT_SAME_MODE)
                        THEN [ok |-> TRUE, v |-> state.last_mode, p |-> c.p]
                        ELSE read_bytes(inp, c.p, 4)
            IN IF ~mode.ok THEN Err(c)
               ELSE [c EXCEPT !.mode = mode.v, !.p = mode.p,
                              \* (mode & 0o170000) == 0o120000
                              !.is_symlink = mode.v[2] \div 16 = 10
                                             /\ mode.v[3] % 2 = 0]
        ReadUid(c) ==
            LET uid == u32(XMIT_SAME_UID, state.last_uid, c)
            IN IF ~uid.ok THEN Err(c) ELSE [c EXCEPT !.uid = uid.v, !.p = uid.p]
        ReadGid(c) ==
            LET gid == u32(XMIT_SAME_GID, state.last_gid, c)
            IN IF ~gid.ok THEN Err(c) ELSE [c EXCEPT !.gid = gid.v, !.p = gid.p]
        \* ---- symlink target
        ReadTarget(c) ==
            LET tl == read_varint_at(inp, c.p)
                target == read_bytes(inp, tl.p, tl.v)
            IN IF ~c.is_symlink THEN c
               ELSE IF ~tl.ok \/ ~target.ok THEN Err(c)
               ELSE [c EXCEPT !.target = <<from_utf8_lossy(target.v)>>,
                              !.p = target.p]
        \* a field is read when the ones before it were
        Then(c, next) == IF c.st = "ok" THEN next ELSE c
        Result(c) ==
            IF c.st = "err" THEN RecvErr(p0, state)
            ELSE IF c.st = "end" THEN RecvNone(c.p, state)
            ELSE [res |-> "entry", p |-> c.p,
                  entry |-> [path |-> c.name, mode |-> c.mode, len |-> c.len,
                             modtime |-> c.modtime, uid |-> c.uid,
                             gid |-> c.gid,
                             is_dir |-> HasFlag(c.flags, XMIT_TOP_DIR),
                             is_symlink |-> c.is_symlink,
                             symlink_target |-> c.target],
                  state |-> [last_name |-> c.name, last_mode |-> c.mode,
                             last_modtime |-> c.modtime, last_uid |-> c.uid,
                             last_gid |-> c.gid]]
        c1 == {ReadFlags(Start)}
        c2 == {Then(c, ReadNameLen(c)) : c \in c1}
        c3 == {Then(c, ReadName(c)) : c \in c2}
        c4 == {Then(c, ReadLen(c)) : c \in c3}
        c5 == {Then(c, ReadModtime(c)) : c \in c4}
        c6 == {Then(c, ReadMode(c)) : c \in c5}
        c7 == {Then(c, ReadUid(c)) : c \in c6}
        c8 == {Then(c, ReadGid(c)) : c \in c7}
        c9 == {Then(c, ReadTarget(c)) : c \in c8}
    IN CHOOSE r \in {Result(c) : c \in c9} : TRUE

\* send_file_list: one turn of its loop
SendFileEntry ==
    /\ lpc = "send"
    /\ lsent < Len(lfiles)
    /\ LET r == send_file_entry(lfiles[lsent + 1], lsstate, lproto, lvarint)
       IN /\ lwire' = lwire \o r.bytes
          /\ lsstate' = r.state
    /\ lsent' = lsent + 1
    /\ UNCHANGED <<lpc, lproto, lvarint, lfiles, lrpos, lrstate, lrecv, lresult>>
    /\ UNCHANGED notFlist

\* send_file_list: write_end_of_flist
WriteEndOfFlist ==
    /\ lpc = "send"
    /\ lsent = Len(lfiles)
    /\ lwire' = lwire \o write_end_of_flist(lvarint)
    /\ lpc' = "recv"
    /\ UNCHANGED <<lproto, lvarint, lfiles, lsstate, lsent, lrpos, lrstate, lrecv, lresult>>
    /\ UNCHANGED notFlist

\* recv_file_list: one turn of its loop
RecvFileEntry ==
    /\ lpc = "recv"
    /\ \E r \in {recv_file_entry(lwire, lrpos, lrstate, lproto, lvarint)} :
          /\ lrpos' = r.p
          /\ lrstate' = r.state
          /\ lrecv' = IF r.res = "entry" THEN Append(lrecv, r.entry) ELSE lrecv
          /\ lpc' = IF r.res = "entry" THEN "recv" ELSE "done"
          /\ lresult' = IF r.res = "entry" THEN ""
                        ELSE IF r.res = "end" THEN "ok" ELSE "err"
    /\ UNCHANGED <<lproto, lvarint, lfiles, lwire, lsstate, lsent>>
    /\ UNCHANGED notFlist

NextFlist ==
    \/ SendFileEntry
    \/ WriteEndOfFlist
    \/ RecvFileEntry

-----------------------------------------------------------------------------
(* algorithm/receiver.rs, reconstruct_file_inplace, as sync_file calls it:
   base_file and output are both the destination.  The destination is opened
   twice: once for writing (no truncation, offset 0) under a BufWriter, once
   for reading under a BufReader.                                          *)

\* a write of data at offset pos of a file: bytes are replaced, the file
\* grows when the write runs past its end, and is never shortened
write_at(file, pos, data) ==
    [i \in 1..Max(Len(file), pos + Len(data)) |->
        IF i > pos /\ i <= pos + Len(data) THEN data[i - pos] ELSE file[i]]

\* the delta branch of sync_file up to the call of reconstruct_file
InplaceDelta ==
    /\ ipc = "delta"
    /\ idelta' = compute_delta(iSrc, generate_checksums(iOld, ibs), ibs)
    /\ ipc' = "open"
    /\ UNCHANGED <<iOld, iSrc, ibs, ifile, iwbuf, iwpos, iidx, iresult>>
    /\ UNCHANGED notInplace

\* OpenOptions::new().write(true).open(output) and File::open(base_path)
InplaceOpen ==
    /\ ipc = "open"
    /\ iwbuf' = <<>>
    /\ iwpos' = 0
    /\ iidx' = 1
    /\ ipc' = "apply"
    /\ UNCHANGED <<iOld, iSrc, ibs, idelta, ifile, iresult>>
    /\ UNCHANGED notInplace

\* One instruction.  A matched block is read from the file as it is on disk
\* now (seek discards the reader's buffer).  writer.seek flushes what the
\* BufWriter holds; write_all then keeps the new bytes in the buffer, or
\* writes them through when they are as long as its capacity.
InplaceInstruction ==
    /\ ipc = "apply"
    /\ iidx <= Len(idelta)
    /\ LET data == instruction_bytes(ifile, idelta[iidx], ibs)
           capacity == optimal_buffer_size(Len(iOld))
           flushed == write_at(ifile, iwpos, iwbuf)
           pos == iwpos + Len(iwbuf)
       IN IF Len(data) >= capacity
          THEN /\ ifile' = write_at(flushed, pos, data)
               /\ iwpos' = pos + Len(data)
               /\ iwbuf' = <<>>
          ELSE /\ ifile' = flushed
               /\ iwpos' = pos
               /\ iwbuf' = data
    /\ iidx' = iidx + 1
    /\ UNCHANGED <<ipc, iOld, iSrc, ibs, idelta, iresult>>
    /\ UNCHANGED notInplace

\* writer.flush() after the loop, and Ok(())
InplaceFlush ==
    /\ ipc = "apply"
    /\ iidx = Len(idelta) + 1
    /\ ifile' = write_at(ifile, iwpos, iwbuf)
    /\ iwpos' = iwpos + Len(iwbuf)
    /\ iwbuf' = <<>>
    /\ iresult' = "ok"
    /\ ipc' = "done"
    /\ UNCHANGED <<iOld, iSrc, ibs, idelta, iidx>>
    /\ UNCHANGED notInplace

\* an open, seek, read, write or flush fails: Err.  The BufWriter is dropped,
\* which tries once more to write what it holds; that may fail as well.
InplaceIoError(drop_flushes) ==
    /\ ipc \in {"open", "apply"}
    /\ ifile' = IF drop_flushes THEN write_at(ifile, iwpos, iwbuf) ELSE ifile
    /\ iwbuf' = <<>>
    /\ iresult' = "err"
    /\ ipc' = "done"
    /\ UNCHANGED <<iOld, iSrc, ibs, idelta, iwpos, iidx>>
    /\ UNCHANGED notInplace

NextInplace ==
    \/ InplaceDelta
    \/ InplaceOpen
    \/ InplaceInstruction
    \/ InplaceFlush
    \/ \E f \in BOOLEAN : InplaceIoError(f)

-----------------------------------------------------------------------------
(* main.rs, main.  The process exit status is what the Rust runtime makes  *)
(* of main's Result: 0 for Ok(()), 1 for Err.                              *)

EXIT_SUCCESS == 0
EXIT_FAILURE == 1

\* the branches of the loop body: daemon download, daemon upload, remote
\* shell, local
Transports == {"download", "upload", "remote", "local"}

\* let options = cli.into_options()?
MainIntoOptions(ok) ==
    /\ epc = "init"
    /\ IF ok
       THEN /\ epc' = IF edaemon THEN "daemon" ELSE "loop"
            /\ UNCHANGED estatus
       ELSE /\ epc' = "exit"
            /\ estatus' = <<EXIT_FAILURE>>
    /\ UNCHANGED <<edaemon, esources, eidx, efatal>>
    /\ UNCHANGED notMain

\* if options.daemon: read_to_string(config_path)?, toml::from_str(..)?,
\* daemon.start().await?, return Ok(())
MainDaemon(ok) ==
    /\ epc = "daemon"
    /\ epc' = "exit"
    /\ estatus' = IF ok THEN <<EXIT_SUCCESS>> ELSE <<EXIT_FAILURE>>
    /\ UNCHANGED <<edaemon, esources, eidx, efatal>>
    /\ UNCHANGED notMain

\* one turn of `for source_str in &sources`: the transport's call returns
\* Ok or Err; both arms of the match print and fall through to the next turn
MainSync(ok) ==
    /\ epc = "loop"
    /\ eidx < Len(esources)
    /\ eidx' = eidx + 1
    /\ efatal' = IF ok THEN efatal ELSE efatal \cup {eidx + 1}
    /\ UNCHANGED <<epc, edaemon, esources, estatus>>
    /\ UNCHANGED notMain

\* the loop is over: Ok(())
MainReturn ==
    /\ epc = "loop"
    /\ eidx = Len(esources)
    /\ epc' = "exit"
    /\ estatus' = <<EXIT_SUCCESS>>
    /\ UNCHANGED <<edaemon, esources, eidx, efatal>>
    /\ UNCHANGED notMain

NextMain ==
    \/ \E ok \in BOOLEAN : MainIntoOptions(ok)
    \/ \E ok \in BOOLEAN : MainDaemon(ok)
    \/ \E ok \in BOOLEAN : MainSync(ok)
    \/ MainReturn

-----------------------------------------------------------------------------
(* transport/local.rs, sync up to the scan, with build_filter_engine;      *)
(* filter/engine.rs, load_patterns_from_file; filter/pattern.rs,           *)
(* FilterPattern::new.  A rule file is <<>> when it cannot be opened and   *)
(* <<lines>> otherwise.                                                    *)

\* str::trim on strings whose only white space is the blank
trim(s) == trim_end_matches(trim_start_matches(s, " "), " ")

\* Glob::new fails on the globs that occur when a `[` is not closed by a
\* later `]` (globset's ErrorKind::UnclosedClass)
glob_new_fails(g) ==
    \E i \in 1..Len(g) :
        g[i] = "[" /\ \A j \in (i + 1)..Len(g) : g[j] # "]"

\* FilterPattern::new returns Err(RsyncError::InvalidPattern)
invalid_pattern(pattern) == glob_new_fails(parse_pattern(trim(pattern)).normalized)

\* load_patterns_from_file: the lines that are given to FilterPattern::new
\* (trimmed; empty lines and lines starting with # are skipped)
RECURSIVE pattern_lines(_)
pattern_lines(lines) ==
    IF lines = <<>> THEN <<>>
    ELSE LET line == trim(Head(lines))
         IN  (IF line = <<>> \/ starts_with(line, <<"#">>) THEN <<>> ELSE <<line>>)
             \o pattern_lines(Tail(lines))

\* the calls of build_filter_engine in their order: FilterPattern::new of a
\* pattern, or File::open of a rule file that fails
RECURSIVE from_files(_, _)
from_files(files, pattern_type) ==
    IF files = <<>> THEN <<>>
    ELSE (IF Head(files) = <<>> THEN <<[call |-> "open"]>>
          ELSE LET ls == pattern_lines(Head(files)[1])
               IN  [i \in 1..Len(ls) |->
                       [call |-> "new", pattern |-> ls[i], pattern_type |-> pattern_type]])
         \o from_files(Tail(files), pattern_type)
engine_calls(opts) ==
    [i \in 1..Len(opts.exclude) |->
        [call |-> "new", pattern |-> opts.exclude[i], pattern_type |-> "Exclude"]]
    \o [i \in 1..Len(opts.include) |->
        [call |-> "new", pattern |-> opts.include[i], pattern_type |-> "Include"]]
    \o from_files(opts.exclude_from, "Exclude")
    \o from_files(opts.include_from, "Include")

\* build_filter_engine with every error swallowed: a pattern that does not
\* compile is left out
RECURSIVE build_filter_engine_lenient(_, _)
build_filter_engine_lenient(calls, engine) ==
    IF calls = <<>> THEN [res |-> "ok", patterns |-> engine]
    ELSE LET c == Head(calls)
         IN  IF c.call = "open" \/ invalid_pattern(c.pattern)
             THEN build_filter_engine_lenient(Tail(calls), engine)
             ELSE build_filter_engine_lenient(Tail(calls),
                      Append(engine, FilterPatternNew(c.pattern, c.pattern_type)))

\* build_filter_engine: each call is followed by `?`
RECURSIVE build_filter_engine(_, _)
build_filter_engine(calls, engine) ==
    IF calls = <<>> THEN [res |-> "ok", patterns |-> engine]
    ELSE LET c == Head(calls)
         IN  IF c.call = "open" THEN [res |-> "Io", patterns |-> <<>>]
             ELSE IF invalid_pattern(c.pattern)
             THEN [res |-> "InvalidPattern", patterns |-> <<>>]
             ELSE build_filter_engine(Tail(calls),
                      Append(engine, FilterPatternNew(c.pattern, c.pattern_type)))

\* dunce::canonicalize(source)? and the destination's path
LoadCanonicalize(ok) ==
    /\ gpc = "canon"
    /\ IF ok THEN gpc' = "filter" /\ UNCHANGED gresult
       ELSE gpc' = "done" /\ gresult' = "Io"
    /\ UNCHANGED <<gopts, gdest, gengine, gmut>>
    /\ UNCHANGED notLoad

\* let filter_engine = self.build_filter_engine()?
LoadBuildFilterEngine ==
    /\ gpc = "filter"
    /\ \E r \in {build_filter_engine(engine_calls(gopts), <<>>)} :
          IF r.res = "ok"
          THEN gpc' = "mkdir" /\ gengine' = r.patterns /\ UNCHANGED gresult
          ELSE gpc' = "done" /\ gresult' = r.res /\ UNCHANGED gengine
    /\ UNCHANGED <<gopts, gdest, gmut>>
    /\ UNCHANGED notLoad

\* if !destination.exists() && !dry_run { create_dir_all(&destination)? }
LoadCreateDestination(ok) ==
    /\ gpc = "mkdir"
    /\ IF gdest \/ gopts.dry_run
       THEN gpc' = "rest" /\ UNCHANGED <<gdest, gmut, gresult>>
       ELSE IF ok
       THEN /\ gpc' = "rest"
            /\ gdest' = TRUE
            /\ gmut' = Append(gmut, "create_dir_all")
            /\ UNCHANGED gresult
       ELSE gpc' = "done" /\ gresult' = "Io" /\ UNCHANGED <<gdest, gmut>>
    /\ UNCHANGED <<gopts, gengine>>
    /\ UNCHANGED notLoad

\* --list-only: the source is scanned, the file map built and printed, and
\* sync returns Ok(stats) before the destination is scanned
LoadListOnly(ok) ==
    /\ gpc = "rest"
    /\ gopts.list_only
    /\ gpc' = "done"
    /\ gresult' = IF ok THEN "ok" ELSE "Io"
    /\ UNCHANGED <<gopts, gdest, gengine, gmut>>
    /\ UNCHANGED notLoad

\* the rest of sync: the scans, the delete passes and the per-file loop; what
\* they change on disk is "transfer" here
LoadRest(ok, changes) ==
    /\ gpc = "rest"
    /\ ~gopts.list_only
    /\ gpc' = "done"
    /\ gresult' = IF ok THEN "ok" ELSE "Io"
    /\ gmut' = IF changes /\ ~gopts.dry_run THEN Append(gmut, "transfer") ELSE gmut
    /\ UNCHANGED <<gopts, gdest, gengine>>
    /\ UNCHANGED notLoad

NextLoad ==
    \/ \E ok \in BOOLEAN : LoadCanonicalize(ok)
    \/ LoadBuildFilterEngine
    \/ \E ok \in BOOLEAN : LoadCreateDestination(ok)
    \/ \E ok \in BOOLEAN : LoadListOnly(ok)
    \/ \E ok \in BOOLEAN, changes \in BOOLEAN : LoadRest(ok, changes)

-----------------------------------------------------------------------------
(* The daemon session: transport/daemon.rs (handle_client, authenticate,   *)
(* handle_file_transfer) against transport/daemon_client.rs (download,     *)
(* upload) over protocol/async_stream.rs.  The two directions of the TCP   *)
(* connection are byte sequences; a read takes bytes from the front of     *)
(* its direction, waits while too few are there, and fails with an         *)
(* unexpected-eof error once the other side has dropped the connection.    *)

\* the result of a read on the bytes `buf` of one direction: st is "ok"
\* (value n or s, the bytes left in rest), "wait" (too few bytes) or "err"
taken(st, n, s, rest) == [st |-> st, n |-> n, s |-> s, rest |-> rest]

drop(buf, k) == SubSeq(buf, k + 1, Len(buf))

\* AsyncProtocolStream::read_i32 (little endian)
stream_read_i32(buf) ==
    IF Len(buf) < 4 THEN taken("wait", 0, <<>>, buf)
    ELSE taken("ok", i32_from_le_bytes(buf[1], buf[2], buf[3], buf[4]), <<>>,
               drop(buf, 4))

\* AsyncProtocolStream::write_i32
stream_write_i32(val) == le_bytes(val, 4)

\* AsyncProtocolStream::read_i8
stream_read_i8(buf) ==
    IF buf = <<>> THEN taken("wait", 0, <<>>, buf)
    ELSE taken("ok", IF buf[1] >= 128 THEN buf[1] - 256 ELSE buf[1], <<>>,
               drop(buf, 1))

\* AsyncProtocolStream::read_varint; an i64 is given by its low four bytes
stream_read_varint(buf) ==
    IF buf = <<>> THEN taken("wait", 0, <<>>, buf)
    ELSE
        LET first == buf[1]
            need == IF first <= 250 THEN 0 ELSE IF first = 251 THEN 2
                    ELSE IF first = 252 THEN 4 ELSE IF first = 253 THEN 8
                    ELSE IF first = 254 THEN 1 ELSE 0
        IN  IF first = 255 THEN taken("err", 0, <<>>, drop(buf, 1))
            ELSE IF Len(buf) < 1 + need THEN taken("wait", 0, <<>>, buf)
            ELSE IF first <= 250 THEN taken("ok", first, <<>>, drop(buf, 1))
            ELSE IF first = 251
            THEN taken("ok", i32_from_le_bytes(buf[2], buf[3],
                                 IF buf[3] >= 128 THEN 255 ELSE 0,
                                 IF buf[3] >= 128 THEN 255 ELSE 0),
                       <<>>, drop(buf, 3))
            ELSE IF first = 254
            THEN taken("ok", IF buf[2] >= 128 THEN buf[2] - 256 ELSE buf[2],
                       <<>>, drop(buf, 2))
            ELSE taken("ok", i32_from_le_bytes(buf[2], buf[3], buf[4], buf[5]),
                       <<>>, drop(buf, 1 + need))

\* AsyncProtocolStream::write_varint, for values of the i32 range
stream_write_varint(val) ==
    IF val >= 0 /\ val <= 250 THEN <<val>>
    ELSE IF val >= -128 /\ val <= -1 THEN <<254>> \o le_bytes(val, 1)
    ELSE IF val >= 251 /\ val <= 32767 THEN <<251>> \o le_bytes(val, 2)
    ELSE <<252>> \o le_bytes(val, 4)

\* the position of the first NUL of buf, 0 when there is none
first_nul(buf) ==
    IF \E i \in 1..Len(buf) : buf[i] = 0
    THEN CHOOSE i \in 1..Len(buf) :
             buf[i] = 0 /\ \A j \in 1..(i - 1) : buf[j] # 0
    ELSE 0

\* AsyncProtocolStream::read_string(max_len): bytes up to a NUL; an error
\* once more than max_len bytes came without one, or when they are not UTF-8
\* (here: a byte above 127)
stream_read_string(buf, max_len) ==
    LET z == first_nul(buf)
        n == IF z = 0 THEN Len(buf) ELSE z - 1
    IN  IF n > max_len THEN taken("err", 0, <<>>, drop(buf, max_len + 1))
        ELSE IF z = 0 THEN taken("wait", 0, <<>>, buf)
        ELSE IF \E i \in 1..n : buf[i] > 127
        THEN taken("err", 0, <<>>, drop(buf, z))
        ELSE taken("ok", 0, SubSeq(buf, 1, n), drop(buf, z))

\* AsyncProtocolStream::write_string
stream_write_string(s) == s \o <<0>>

\* AsyncProtocolStream::read_all(len)
stream_read_all(buf, len) ==
    IF Len(buf) < len THEN taken("wait", 0, <<>>, buf)
    ELSE taken("ok", 0, SubSeq(buf, 1, len), drop(buf, len))

\* a read at the end of the other side's bytes: "wait" is an error
\* (unexpected eof) once the other side has dropped the connection
at_eof(r, closed) ==
    IF r.st = "wait" /\ closed THEN taken("err", 0, <<>>, r.rest) ELSE r

\* a path string as its components: str::split('/')
RECURSIVE path_components(_, _, _)
path_components(path, i, cur) ==
    IF i > Len(path) THEN <<cur>>
    ELSE IF path[i] = 47 THEN <<cur>> \o path_components(path, i + 1, <<>>)
    ELSE path_components(path, i + 1, Append(cur, path[i]))

\* the file a path names once the operating system has walked it from the
\* root: empty components and "." stay, ".." goes up
RECURSIVE walk(_, _)
walk(at, comps) ==
    IF comps = <<>> THEN at
    ELSE LET c == Head(comps)
             next == IF c = <<>> \/ c = <<46>> THEN at
                     ELSE IF c = <<46, 46>>
                     THEN (IF at = <<>> THEN at ELSE SubSeq(at, 1, Len(at) - 1))
                     ELSE Append(at, c)
         IN  walk(next, Tail(comps))

\* module_config.path.join(&file_path): an absolute file_path replaces the
\* module's path, and no ".." is taken out of the result
dest_path(module_path, file_path) ==
    IF file_path # <<>> /\ file_path[1] = 47
    THEN walk(<<>>, path_components(file_path, 1, <<>>))
    ELSE walk(module_path, path_components(file_path, 1, <<>>))

\* the file is within the tree below the directory
is_below(file, dir) ==
    Len(file) > Len(dir) /\ SubSeq(file, 1, Len(dir)) = dir

\* "@RSYNCD: AUTHREQD" and "@RSYNCD: AUTH FAILED"
AUTHREQD == <<64, 82, 83, 89, 78, 67, 68, 58, 32, 65, 85, 84, 72, 82, 69, 81, 68>>
AUTH_FAILED ==
    <<64, 82, 83, 89, 78, 67, 68, 58, 32, 65, 85, 84, 72, 32, 70, 65, 73, 76, 69, 68>>

ClientClosed == cres # "none"
DaemonClosed == kres # "none"

\* handle_client returns: the stream is dropped
DaemonReturn(res) ==
    /\ kpc' = "end"
    /\ kres' = res

\* handle_client: read_i32 of the client's version, and of its acknowledgement
DaemonReadI32 ==
    /\ kpc \in {"version", "ack"}
    /\ \E r \in {at_eof(stream_read_i32(c2d), ClientClosed)} :
          /\ r.st # "wait"
          /\ c2d' = r.rest
          /\ IF r.st = "err" THEN DaemonReturn("err")
             ELSE /\ kpc' = IF kpc = "version" THEN "send_versions" ELSE "module"
                  /\ kres' = kres
    /\ UNCHANGED <<cprog, ccall, cleft, cres, kmodules, kmodule, kuser, kauth,
                   klisted, kleft, kwritten, d2c>>
    /\ UNCHANGED notSession

\* handle_client: write_i32(PROTOCOL_VERSION_MAX) twice, each flushed; a
\* write to a connection the client has dropped may fail
DaemonWriteVersions(ok) ==
    /\ kpc = "send_versions"
    /\ ok \/ ClientClosed
    /\ IF ok
       THEN /\ d2c' = d2c \o stream_write_i32(PROTOCOL_VERSION_MAX)
                          \o stream_write_i32(PROTOCOL_VERSION_MAX)
            /\ kpc' = "ack"
            /\ kres' = kres
       ELSE /\ d2c' = d2c
            /\ DaemonReturn("err")
    /\ UNCHANGED <<cprog, ccall, cleft, cres, kmodules, kmodule, kuser, kauth,
                   klisted, kleft, kwritten, c2d>>
    /\ UNCHANGED notSession

\* handle_client: read_string(256) of the module name, config.modules.get,
\* and, for a module with auth_users, the first write of authenticate
DaemonReadModule ==
    /\ kpc = "module"
    /\ \E r \in {at_eof(stream_read_string(c2d, 256), ClientClosed)} :
          /\ r.st # "wait"
          /\ c2d' = r.rest
          /\ IF r.st = "err" \/ r.s \notin DOMAIN kmodules
             THEN /\ DaemonReturn("err")
                  /\ UNCHANGED <<kmodule, d2c>>
             ELSE /\ kmodule' = <<r.s>>
                  /\ kres' = kres
                  /\ IF kmodules[r.s].auth_users # <<>>
                     THEN /\ d2c' = d2c \o stream_write_string(AUTHREQD)
                          /\ kpc' = "user"
                     ELSE /\ d2c' = d2c
                          /\ kpc' = "transfer"
    /\ UNCHANGED <<cprog, ccall, cleft, cres, kmodules, kuser, kauth, klisted,
                   kleft, kwritten>>
    /\ UNCHANGED notSession

\* authenticate: read_string(256) of the username
DaemonReadUser ==
    /\ kpc = "user"
    /\ \E r \in {at_eof(stream_read_string(c2d, 256), ClientClosed)} :
          /\ r.st # "wait"
          /\ c2d' = r.rest
          /\ IF r.st = "err"
             THEN DaemonReturn("err") /\ kuser' = kuser
             ELSE kuser' = <<r.s>> /\ kpc' = "pass" /\ kres' = kres
    /\ UNCHANGED <<cprog, ccall, cleft, cres, kmodules, kmodule, kauth, klisted,
                   kleft, kwritten, d2c>>
    /\ UNCHANGED notSession

\* authenticate, the lines of the secrets file: the first line whose user
\* is the username and whose password is the one received; its parameter
\* _auth_users is not read
secrets_match(secrets, username, password_hash) ==
    \E i \in 1..Len(secrets) :
        secrets[i].user = username /\ secrets[i].pass = password_hash

\* authenticate: read_string(512) of the password, the secrets file, and
\* the return to handle_client, which bails when the result is false
DaemonReadPassword ==
    /\ kpc = "pass"
    /\ \E r \in {at_eof(stream_read_string(c2d, 512), ClientClosed)} :
          /\ r.st # "wait"
          /\ c2d' = r.rest
          /\ IF r.st = "err"
             THEN DaemonReturn("err") /\ UNCHANGED <<kauth, d2c>>
             ELSE IF secrets_match(kmodules[kmodule[1]].secrets, kuser[1], r.s)
             THEN /\ kauth' = <<[user |-> kuser[1], pass |-> r.s]>>
                  /\ kpc' = "transfer"
                  /\ UNCHANGED <<kres, d2c>>
             ELSE /\ d2c' = d2c \o stream_write_string(AUTH_FAILED)
                  /\ kauth' = kauth
                  /\ DaemonReturn("err")
    /\ UNCHANGED <<cprog, ccall, cleft, cres, kmodules, kmodule, kuser, klisted,
                   kleft, kwritten>>
    /\ UNCHANGED notSession

\* the bytes of the file list handle_file_transfer writes
RECURSIVE file_list_bytes(_)
file_list_bytes(files) ==
    IF files = <<>> THEN <<>>
    ELSE LET file == Head(files)
         IN  stream_write_string(file.path)
             \o stream_write_varint(file.size)
             \o stream_write_varint(file.mtime)
             \o <<IF file.dir THEN 1 ELSE 0>>
             \o file_list_bytes(Tail(files))

\* handle_file_transfer: the scan of the module and the file list; a
\* read-only module ends the session here
DaemonSendFileList(ok) ==
    /\ kpc = "transfer"
    /\ ok \/ ClientClosed
    /\ LET module == kmodules[kmodule[1]]
       IN  IF ok
           THEN /\ d2c' = d2c \o stream_write_varint(Len(module.files))
                              \o file_list_bytes(module.files)
                /\ klisted' = TRUE
                /\ IF module.read_only THEN DaemonReturn("ok")
                   ELSE kpc' = "count" /\ kres' = kres
           ELSE /\ UNCHANGED <<d2c, klisted>>
                /\ DaemonReturn("err")
    /\ UNCHANGED <<cprog, ccall, cleft, cres, kmodules, kmodule, kuser, kauth,
                   kleft, kwritten, c2d>>
    /\ UNCHANGED notSession

\* `as usize` of a count: a negative count is above every number of
\* records a session sends
as_usize(n) == IF n < 0 THEN 2147483647 ELSE n

\* handle_file_transfer: read_varint of the number of files to receive
DaemonReadCount ==
    /\ kpc = "count"
    /\ \E r \in {at_eof(stream_read_varint(c2d), ClientClosed)} :
          /\ r.st # "wait"
          /\ c2d' = r.rest
          /\ IF r.st = "err" THEN DaemonReturn("err") /\ kleft' = kleft
             ELSE IF r.n = 0 THEN DaemonReturn("ok") /\ kleft' = 0
             ELSE /\ kleft' = as_usize(r.n)
                  /\ kpc' = "records"
                  /\ kres' = kres
    /\ UNCHANGED <<cprog, ccall, cleft, cres, kmodules, kmodule, kuser, kauth,
                   klisted, kwritten, d2c>>
    /\ UNCHANGED notSession

\* one record of handle_file_transfer's loop: read_string(4096),
\* read_varint, read_all
read_record(buf, closed) ==
    LET p == at_eof(stream_read_string(buf, 4096), closed)
        z == IF p.st = "ok" THEN at_eof(stream_read_varint(p.rest), closed)
             ELSE p
        d == IF z.st = "ok"
             THEN at_eof(stream_read_all(z.rest, IF z.n < 0 THEN 0 ELSE z.n),
                         closed)
             ELSE z
    IN  [st |-> d.st, path |-> p.s, data |-> d.s, rest |-> d.rest]

\* the directories of the daemon's host: the module's path and the ones
\* above it
ModuleRoot == <<(<<115, 114, 118>>), (<<109>>)>>
Directories == {SubSeq(ModuleRoot, 1, k) : k \in 0..Len(ModuleRoot)}

\* handle_file_transfer, one turn of the loop: the record is read, the
\* parent directories are made and fs::write puts the data at
\* module_config.path.join(&file_path); fs::write fails on a directory
DaemonReceiveFile ==
    /\ kpc = "records"
    /\ \E r \in {read_record(c2d, ClientClosed)} :
          /\ r.st # "wait"
          /\ c2d' = r.rest
          /\ IF r.st = "err" THEN DaemonReturn("err") /\ UNCHANGED <<kleft, kwritten>>
             ELSE \E at \in {dest_path(kmodules[kmodule[1]].path, r.path)} :
                    IF at \in Directories
                    THEN DaemonReturn("err") /\ UNCHANGED <<kleft, kwritten>>
                    ELSE /\ kwritten' = Append(kwritten, [at |-> at, bytes |-> r.data])
                         /\ kleft' = kleft - 1
                         /\ IF kleft = 1 THEN DaemonReturn("ok")
                            ELSE UNCHANGED <<kpc, kres>>
    /\ UNCHANGED <<cprog, ccall, cleft, cres, kmodules, kmodule, kuser, kauth,
                   klisted, d2c>>
    /\ UNCHANGED notSession

\* the stream operations of a client, in the order of its code
Write(bytes) == [op |-> "write", bytes |-> bytes]
Read(what) == [op |-> what, bytes |-> <<>>]

\* DaemonClient::download and upload, the handshake: the version, the
\* daemon's two versions, the acknowledgement, the module name
client_handshake(module) ==
    << Write(stream_write_i32(PROTOCOL_VERSION_MAX)),
       Read("read_i32"), Read("read_i32"),
       Write(stream_write_i32(PROTOCOL_VERSION_MAX)),
       Write(stream_write_string(module)) >>

\* DaemonClient::download: the handshake and the file list
download(module) == client_handshake(module) \o <<Read("read_list")>>

\* DaemonClient::upload, the loop over local_files: a directory is passed
\* over, a file is sent as its path, its length and its bytes
RECURSIVE upload_records(_)
upload_records(local_files) ==
    IF local_files = <<>> THEN <<>>
    ELSE LET file == Head(local_files)
         IN  IF file.dir THEN upload_records(Tail(local_files))
             ELSE <<Write(stream_write_string(file.path)
                          \o stream_write_varint(Len(file.data))
                          \o file.data)>>
                  \o upload_records(Tail(local_files))

\* DaemonClient::upload: the handshake, the server's file list, the count
\* local_files.len() and the records
upload(module, local_files) ==
    client_handshake(module)
    \o <<Read("read_list"), Write(stream_write_varint(Len(local_files)))>>
    \o upload_records(local_files)

\* another client of the protocol: it answers the authentication request
\* with a username and a password before it reads the file list
peer_login(module, username, password) ==
    client_handshake(module)
    \o <<Read("read_string"),
         Write(stream_write_string(username) \o stream_write_string(password)),
         Read("read_list")>>

\* another client of the protocol: it sends a record for each of the
\* files it names, under the paths of its choice
peer_upload(module, files) ==
    client_handshake(module)
    \o <<Read("read_list"), Write(stream_write_varint(Len(files)))>>
    \o upload_records(files)

\* the client returns: the stream is dropped
ClientReturn(res) ==
    /\ cres' = res
    /\ cprog' = <<>>

\* write_i32, write_string, write_varint, write_all with the flush that
\* follows; a write to a connection the daemon has dropped may fail
ClientWrite(ok) ==
    /\ cres = "none" /\ cprog # <<>> /\ Head(cprog).op = "write"
    /\ ok \/ DaemonClosed
    /\ IF ok
       THEN /\ c2d' = c2d \o Head(cprog).bytes
            /\ cprog' = Tail(cprog)
            /\ cres' = cres
       ELSE /\ c2d' = c2d
            /\ ClientReturn("err")
    /\ UNCHANGED <<ccall, cleft, kpc, kmodules, kmodule, kuser, kauth, klisted,
                   kleft, kwritten, kres, d2c>>
    /\ UNCHANGED notSession

\* read_i32 of a version of the daemon
ClientReadI32 ==
    /\ cres = "none" /\ cprog # <<>> /\ Head(cprog).op = "read_i32"
    /\ \E r \in {at_eof(stream_read_i32(d2c), DaemonClosed)} :
          /\ r.st # "wait"
          /\ d2c' = r.rest
          /\ IF r.st = "err" THEN ClientReturn("err")
             ELSE cprog' = Tail(cprog) /\ cres' = cres
    /\ UNCHANGED <<ccall, cleft, kpc, kmodules, kmodule, kuser, kauth, klisted,
                   kleft, kwritten, kres, c2d>>
    /\ UNCHANGED notSession

\* read_string(256) of the daemon's authentication request
ClientReadString ==
    /\ cres = "none" /\ cprog # <<>> /\ Head(cprog).op = "read_string"
    /\ \E r \in {at_eof(stream_read_string(d2c, 256), DaemonClosed)} :
          /\ r.st # "wait"
          /\ d2c' = r.rest
          /\ IF r.st = "err" THEN ClientReturn("err")
             ELSE cprog' = Tail(cprog) /\ cres' = cres
    /\ UNCHANGED <<ccall, cleft, kpc, kmodules, kmodule, kuser, kauth, klisted,
                   kleft, kwritten, kres, c2d>>
    /\ UNCHANGED notSession

\* read_varint of the number of entries of the server's file list
ClientReadCount ==
    /\ cres = "none" /\ cprog # <<>> /\ Head(cprog).op = "read_list"
    /\ cleft = 0
    /\ \E r \in {at_eof(stream_read_varint(d2c), DaemonClosed)} :
          /\ r.st # "wait"
          /\ d2c' = r.rest
          /\ IF r.st = "err" THEN ClientReturn("err") /\ cleft' = cleft
             ELSE /\ cleft' = as_usize(r.n)
                  /\ cprog' = IF r.n = 0 THEN Tail(cprog) ELSE cprog
                  /\ cres' = cres
    /\ UNCHANGED <<ccall, kpc, kmodules, kmodule, kuser, kauth, klisted, kleft,
                   kwritten, kres, c2d>>
    /\ UNCHANGED notSession

\* one entry of the server's file list: read_string(4096), read_varint,
\* read_varint, read_i8
read_entry(buf, closed) ==
    LET p == at_eof(stream_read_string(buf, 4096), closed)
        z == IF p.st = "ok" THEN at_eof(stream_read_varint(p.rest), closed)
             ELSE p
        m == IF z.st = "ok" THEN at_eof(stream_read_varint(z.rest), closed)
             ELSE z
        t == IF m.st = "ok" THEN at_eof(stream_read_i8(m.rest), closed) ELSE m
    IN  [st |-> t.st, path |-> p.s, rest |-> t.rest]

\* the loop over the entries of the server's file list, one turn
ClientReadEntry ==
    /\ cres = "none" /\ cprog # <<>> /\ Head(cprog).op = "read_list"
    /\ cleft > 0
    /\ \E r \in {read_entry(d2c, DaemonClosed)} :
          /\ r.st # "wait"
          /\ d2c' = r.rest
          /\ IF r.st = "err" THEN ClientReturn("err") /\ cleft' = cleft
             ELSE /\ cleft' = cleft - 1
                  /\ cprog' = IF cleft = 1 THEN Tail(cprog) ELSE cprog
                  /\ cres' = cres
    /\ UNCHANGED <<ccall, kpc, kmodules, kmodule, kuser, kauth, klisted, kleft,
                   kwritten, kres, c2d>>
    /\ UNCHANGED notSession

\* download and upload return Ok once everything is written
ClientDone ==
    /\ cres = "none" /\ cprog = <<>>
    /\ cres' = "ok"
    /\ UNCHANGED <<cprog, ccall, cleft, kpc, kmodules, kmodule, kuser, kauth,
                   klisted, kleft, kwritten, kres, c2d, d2c>>
    /\ UNCHANGED notSession

NextSession ==
    \/ DaemonReadI32
    \/ \E ok \in BOOLEAN : DaemonWriteVersions(ok)
    \/ DaemonReadModule
    \/ DaemonReadUser
    \/ DaemonReadPassword
    \/ \E ok \in BOOLEAN : DaemonSendFileList(ok)
    \/ DaemonReadCount
    \/ DaemonReceiveFile
    \/ \E ok \in BOOLEAN : ClientWrite(ok)
    \/ ClientReadI32
    \/ ClientReadString
    \/ ClientReadCount
    \/ ClientReadEntry
    \/ ClientDone

-----------------------------------------------------------------------------
(* Two sessions of one daemon: transport/daemon.rs, start.  Each accepted  *)
(* client is handled by a task of its own with a clone of the              *)
(* configuration; what the tasks have in common is the file system the     *)
(* module paths point into.  A session is taken at the level of its        *)
(* messages: the file list the daemon writes and the records it receives.  *)

\* a scan that is not restricted to the module's path
module_scan_all(disk, module) == disk

\* the files below a module's path: scanner.scan(&module_config.path)
module_scan(disk, module) == {f \in disk : f.module = module}

\* fs::write(&dest_path, &file_data) for a record of a session on `module`
fs_write(disk, module, record) ==
    {f \in disk : ~(f.module = module /\ f.name = record.name)}
    \cup {[module |-> module, name |-> record.name, data |-> record.data]}

\* the messages of a session: the file list, then the records
list_message(files) == [type |-> "list", files |-> files, name |-> ""]
record_message(record) == [type |-> "file", files |-> {}, name |-> record.name]

\* handle_file_transfer run from its first to its last statement on `disk`
\* with no other task between its steps
RECURSIVE receive_all(_, _, _)
receive_all(disk, module, records) ==
    IF records = <<>> THEN disk
    ELSE receive_all(fs_write(disk, module, Head(records)), module, Tail(records))

handle_file_transfer(disk, session) ==
    [log |-> <<list_message(module_scan(disk, session.module))>>
             \o [i \in 1..Len(session.records) |->
                    record_message(session.records[i])],
     disk |-> receive_all(disk, session.module, session.records)]

\* the two sessions one after the other, `first` before `second`
one_after_the_other(disk, sessions, first, second) ==
    LET a == handle_file_transfer(disk, sessions[first])
        b == handle_file_transfer(a.disk, sessions[second])
    IN  [log |-> [i \in {first, second} |-> IF i = first THEN a.log ELSE b.log],
         disk |-> b.disk]

Tasks == {1, 2}

\* start: listener.accept and tokio::spawn of handle_client with
\* config_clone, up to the call of handle_file_transfer
TaskSpawn(i) ==
    /\ tpc[i] = "connect"
    /\ \A j \in Tasks : j < i => tpc[j] # "connect"
    /\ tpc' = [tpc EXCEPT ![i] = "transfer"]
    /\ UNCHANGED <<tdisk, tdisk0, tsessions, tlog, tnext>>
    /\ UNCHANGED notTasks

\* handle_file_transfer: the scan of the module and the file list
TaskSendFileList(i) ==
    /\ tpc[i] = "transfer"
    /\ tlog' = [tlog EXCEPT ![i] =
                   Append(@, list_message(module_scan(tdisk, tsessions[i].module)))]
    /\ tpc' = [tpc EXCEPT ![i] =
                  IF tsessions[i].records = <<>> THEN "end" ELSE "records"]
    /\ UNCHANGED <<tdisk, tdisk0, tsessions, tnext>>
    /\ UNCHANGED notTasks

\* handle_file_transfer, one turn of the loop: a record is read and written
TaskReceiveFile(i) ==
    /\ tpc[i] = "records"
    /\ LET record == tsessions[i].records[tnext[i]]
       IN  /\ tdisk' = fs_write(tdisk, tsessions[i].module, record)
           /\ tlog' = [tlog EXCEPT ![i] = Append(@, record_message(record))]
    /\ tnext' = [tnext EXCEPT ![i] = @ + 1]
    /\ tpc' = [tpc EXCEPT ![i] =
                  IF tnext[i] = Len(tsessions[i].records) THEN "end" ELSE "records"]
    /\ UNCHANGED <<tdisk0, tsessions>>
    /\ UNCHANGED notTasks

NextTasks ==
    \/ \E i \in Tasks : TaskSpawn(i)
    \/ \E i \in Tasks : TaskSendFileList(i)
    \/ \E i \in Tasks : TaskReceiveFile(i)

-----------------------------------------------------------------------------
(* The index codec: protocol/rsync_protocol.rs, write_ndx and read_ndx.   *)

NDX_DONE == -1
NDX_FLIST_EOF == -2

\* NdxState::new
NdxStateNew == [prev_positive |-> -1, prev_negative |-> -1]

\* ndx | 0x80000000u32 as i32, for ndx >= 0
with_sign_bit(ndx) == (ndx - 2147483647) - 1

\* write_ndx: the bytes written and the state afterwards
write_ndx(ndx, state, protocol_version) ==
    IF protocol_version < 30 THEN [bytes |-> le_bytes(ndx, 4), state |-> state]
    ELSE IF ndx >= 0
    THEN LET diff == ndx - state.prev_positive
         IN  [bytes |-> IF diff < 254 /\ diff > 0 THEN <<diff>>
                        ELSE IF diff < 0 \/ diff > 32767
                        THEN <<254>> \o le_bytes(with_sign_bit(ndx), 4)
                        ELSE <<254>> \o le_bytes(diff, 2),
              state |-> [state EXCEPT !.prev_positive = ndx]]
    ELSE IF ndx = NDX_DONE THEN [bytes |-> <<0>>, state |-> state]
    ELSE LET diff == state.prev_negative - ndx
         IN  [bytes |-> IF diff < 1 \/ diff > 254
                        THEN <<255>> \o le_bytes(ndx, 4)
                        ELSE <<diff>>,
              state |-> [state EXCEPT !.prev_negative = ndx]]

\* read_ndx at offset p of inp: the index, the offset behind it and the
\* state afterwards; a read past the end of inp is an error
read_ndx(inp, p, state, protocol_version) ==
    LET fail == [ok |-> FALSE, v |-> 0, p |-> p, state |-> state]
        have(n) == p + n <= Len(inp)
        at(k) == inp[p + k]
    IN  IF protocol_version < 30
        THEN IF have(4)
             THEN [ok |-> TRUE, v |-> i32_from_le_bytes(at(1), at(2), at(3), at(4)),
                   p |-> p + 4, state |-> state]
             ELSE fail
        ELSE IF ~have(1) THEN fail
        ELSE IF at(1) = 0
        THEN [ok |-> TRUE, v |-> NDX_DONE, p |-> p + 1, state |-> state]
        ELSE
          LET is_negative == at(1) = 255
              \* the offset of b
              q == IF is_negative THEN p + 1 ELSE p
              prev == IF is_negative THEN state.prev_negative
                      ELSE state.prev_positive
              done(num, n) ==
                  [ok |-> TRUE, v |-> IF is_negative THEN 0 - num ELSE num,
                   p |-> q + n,
                   state |-> IF is_negative
                             THEN [state EXCEPT !.prev_negative = num]
                             ELSE [state EXCEPT !.prev_positive = num]]
          IN  IF q + 1 > Len(inp) THEN fail
              ELSE IF inp[q + 1] = 254
              THEN IF q + 3 > Len(inp) THEN fail
                   ELSE LET b0 == inp[q + 2]
                            b1 == inp[q + 3]
                        IN  IF b0 >= 128
                            THEN IF q + 5 > Len(inp) THEN fail
                                 ELSE done(b1 + 256 * inp[q + 4]
                                           + 65536 * inp[q + 5]
                                           + 16777216 * (b0 - 128), 5)
                            ELSE done(256 * b0 + b1 + prev, 3)
              ELSE done(inp[q + 1] + prev, 1)

\* the state before the next index: the last one reached, or a fresh one
current_state(states) ==
    IF states = <<>> THEN NdxStateNew ELSE states[Len(states)]

\* write_ndx(&mut wire, ndx, &mut state, protocol_version) for the next index
WriteNdx ==
    /\ xpc = "write"
    /\ \E w \in {write_ndx(xseq[Len(xwstates) + 1], current_state(xwstates), xproto)} :
          /\ xwire' = xwire \o w.bytes
          /\ xwstates' = Append(xwstates, w.state)
    /\ xpc' = IF Len(xwstates) + 1 = Len(xseq) THEN "read" ELSE "write"
    /\ UNCHANGED <<xproto, xseq, xpos, xout, xrstates, xok>>
    /\ UNCHANGED notNdx

\* read_ndx(&mut wire, &mut state, protocol_version) for the next index; the
\* reader stops at the first error
ReadNdx ==
    /\ xpc = "read"
    /\ \E r \in {read_ndx(xwire, xpos, current_state(xrstates), xproto)} :
          IF r.ok
          THEN /\ xout' = Append(xout, r.v)
               /\ xrstates' = Append(xrstates, r.state)
               /\ xpos' = r.p
               /\ xok' = xok
               /\ xpc' = IF Len(xout) + 1 = Len(xseq) THEN "done" ELSE "read"
          ELSE /\ xok' = FALSE
               /\ xpc' = "done"
               /\ UNCHANGED <<xout, xrstates, xpos>>
    /\ UNCHANGED <<xproto, xseq, xwire, xwstates>>
    /\ UNCHANGED notNdx

NextNdx ==
    \/ WriteNdx
    \/ ReadNdx

-----------------------------------------------------------------------------
(* The varint30 and varlong30 codecs on their own: protocol/               *)
(* rsync_protocol.rs, write_varlong30, read_varlong30, write_varint30,     *)
(* read_varint30.                                                          *)

\* write_varint30(&mut bytes, x) or write_varlong30(&mut bytes, x)
Write30 ==
    /\ qpc = "write"
    /\ qbytes' = IF qcodec = "varint30" THEN write_varint30(qx)
                 ELSE write_varlong30(qx)
    /\ qpc' = "read"
    /\ UNCHANGED <<qcodec, qx, qread>>
    /\ UNCHANGED notCodec30

\* read_varint30(&mut bytes) or read_varlong30(&mut bytes); read_varint30
\* returns its i32 as an i64
Read30 ==
    /\ qpc = "read"
    /\ IF qcodec = "varint30"
       THEN \E r \in {read_varint_at(qbytes, 0)} :
               qread' = [ok |-> r.ok, p |-> r.p,
                         v |-> IF r.ok THEN i64_bytes(r.v) ELSE <<>>]
       ELSE \E r \in {read_varlong30(qbytes, 0)} :
               qread' = [ok |-> r.ok, p |-> r.p, v |-> r.v]
    /\ qpc' = "done"
    /\ UNCHANGED <<qcodec, qx, qbytes>>
    /\ UNCHANGED notCodec30

NextCodec30 ==
    \/ Write30
    \/ Read30

-----------------------------------------------------------------------------
(* A frame between the two framers: protocol/multiplex.rs                  *)
(* (MultiplexReader, MultiplexWriter) and protocol/multiplex_io.rs         *)
(* (MultiplexIO).  MultiplexReader and MultiplexWriter are the variant     *)
(* "MultiplexWriter" of header_bytes, header_tag and header_length.        *)

\* MultiplexIO::write or MultiplexWriter::write of ybuf
CrossWrite ==
    /\ ypc = "write"
    /\ ywire' = <<write_frame(ywriter, [seq |-> ybuf, mul |-> 0, add |-> 0],
                              Len(ybuf))>>
    /\ ypc' = "read"
    /\ UNCHANGED <<ywriter, yreader, ybuf, yread>>
    /\ UNCHANGED notCross

\* MultiplexIO::read or MultiplexReader::read on the inner stream: the
\* header the reader decodes, and the outcome of its read_packet loop
CrossRead ==
    /\ ypc = "read"
    /\ \E r \in {read_loop(yreader, ywire, 0, <<>>)} :
          yread' = [res |-> r.res,
                    tag |-> header_tag(yreader, ywire[1].hdr),
                    length |-> header_length(yreader, ywire[1].hdr),
                    payload |-> [k \in 1..r.buf.len |->
                                    WireAt(ywire, r.buf.start + k - 1)]]
    /\ ypc' = "done"
    /\ UNCHANGED <<ywriter, yreader, ybuf, ywire>>
    /\ UNCHANGED notCross

NextCross ==
    \/ CrossWrite
    \/ CrossRead

-----------------------------------------------------------------------------
(* transport/local.rs: the delete pass of a sync whose FilterEngine holds  *)
(* rules.  Relative paths are sequences of characters, as the filter       *)
(* engine takes them; a tree gives each path none, file or dir.            *)

PurgePaths ==
    { <<>>, <<"a">>, <<"b">>, <<"d">>, <<"d", "/", "a">>, <<"d", "/", "b">> }

\* q is p or lies below the directory p
below(q, p) ==
    q = p \/ p = <<>> \/ (Len(q) > Len(p) /\ SubSeq(q, 1, Len(p) + 1) = p \o <<"/">>)

\* Scanner::scan: every entry with WalkDir (the root included), the entries
\* directly in the root without it
purge_scan(tree, recursive) ==
    {p \in PurgePaths :
        /\ tree[p] # "none"
        /\ recursive \/ (p # <<>> /\ \A i \in 1..Len(p) : p[i] # "/")}

\* build_file_map: the scanned entries the filter includes, by relative path
filtered_file_map(files, rules) == {p \in files : should_include(rules, p)}

\* sync up to the first loop: both trees are scanned, the file maps built
\* with the filter engine; with delete-before, delete_extra_files is entered
PurgeStart ==
    /\ zpc = "start"
    /\ \E smap \in {filtered_file_map(purge_scan(zsrc, zopts.recursive), zrules)} :
       \E dmap \in {filtered_file_map(purge_scan(zdst, zopts.recursive), zrules)} :
          /\ zsmap' = smap
          /\ zdmap' = dmap
          /\ ztodo' = IF zopts.delete_after THEN {} ELSE dmap \ smap
    /\ zpc' = IF zopts.delete_after THEN "transfer" ELSE "delete"
    /\ UNCHANGED <<zopts, zrules, zsrc, zdst, zdst0, zpass, zres>>
    /\ UNCHANGED notPurge

\* delete_extra_files, one entry of dest_map that is not in source_map (in
\* the order of the HashMap): remove_dir_all for a directory, remove_file
\* for a file; a removal of what is no longer there fails and ends sync
PurgeDelete(p) ==
    /\ zpc = "delete"
    /\ p \in ztodo
    /\ IF zopts.dry_run
       THEN /\ ztodo' = ztodo \ {p}
            /\ UNCHANGED <<zdst, zpc, zres>>
       ELSE IF zdst[p] = "none"
       THEN /\ zpc' = "done"
            /\ zres' = "err"
            /\ UNCHANGED <<zdst, ztodo>>
       ELSE /\ zdst' = [q \in PurgePaths |->
                          IF q = p \/ (zdst[p] = "dir" /\ below(q, p))
                          THEN "none" ELSE zdst[q]]
            /\ ztodo' = ztodo \ {p}
            /\ UNCHANGED <<zpc, zres>>
    /\ UNCHANGED <<zopts, zrules, zsrc, zdst0, zsmap, zdmap, zpass>>
    /\ UNCHANGED notPurge

\* delete_extra_files returns: the per-file loop follows a pass before the
\* transfers, the statistics one after them
PurgeDeleted ==
    /\ zpc = "delete"
    /\ ztodo = {}
    /\ zpass' = TRUE
    /\ IF zopts.delete_after
       THEN zpc' = "done" /\ zres' = "ok"
       ELSE zpc' = "transfer" /\ zres' = zres
    /\ UNCHANGED <<zopts, zrules, zsrc, zdst, zdst0, zsmap, zdmap, ztodo>>
    /\ UNCHANGED notPurge

\* the per-file loop: every entry of source_map is made in the destination
\* (nothing in a dry run); with delete-after, delete_extra_files is entered
PurgeTransfer ==
    /\ zpc = "transfer"
    /\ zdst' = IF zopts.dry_run THEN zdst
               ELSE [q \in PurgePaths |-> IF q \in zsmap THEN zsrc[q] ELSE zdst[q]]
    /\ IF zopts.delete_after
       THEN /\ zpc' = "delete"
            /\ ztodo' = zdmap \ zsmap
            /\ zres' = zres
       ELSE /\ zpc' = "done"
            /\ zres' = "ok"
            /\ ztodo' = ztodo
    /\ UNCHANGED <<zopts, zrules, zsrc, zdst0, zsmap, zdmap, zpass>>
    /\ UNCHANGED notPurge

NextPurge ==
    \/ PurgeStart
    \/ \E p \in PurgePaths : PurgeDelete(p)
    \/ PurgeDeleted
    \/ PurgeTransfer

-----------------------------------------------------------------------------
(* algorithm/parallel_checksum.rs: compute_block_checksums_parallel.  The  *)
(* closure of par_iter().map() runs once per block on whichever thread of  *)
(* the pool takes it, in any order; collect() of an indexed parallel       *)
(* iterator puts the result of item i at position i of the Vec.            *)

\* data.chunks(block_size).enumerate().collect()
chunks(data, bs) ==
    [i \in 1..((Len(data) + bs - 1) \div bs) |->
        <<i - 1, Slice(data, (i - 1) * bs, Min(i * bs, Len(data)))>>]

ParallelSplit ==
    /\ wpc = "split"
    /\ wblocks' = chunks(wdata, wbs)
    /\ wslots' = [i \in 1..Len(chunks(wdata, wbs)) |-> <<>>]
    /\ wpc' = "map"
    /\ UNCHANGED <<wdata, wbs, wout, wseq>>
    /\ UNCHANGED notParallel

\* the closure, for the block a worker picks
ParallelMap(i) ==
    /\ wpc = "map"
    /\ i \in 1..Len(wblocks)
    /\ wslots[i] = <<>>
    /\ wslots' = [wslots EXCEPT ![i] =
           <<[index  |-> wblocks[i][1],
              weak   |-> checksum(RollingChecksumNew(wblocks[i][2])),
              strong |-> compute_strong_checksum(wblocks[i][2])]>>]
    /\ UNCHANGED <<wpc, wdata, wbs, wblocks, wout, wseq>>
    /\ UNCHANGED notParallel

\* collect(): every block has been mapped
ParallelCollect ==
    /\ wpc = "map"
    /\ \A i \in 1..Len(wslots) : wslots[i] # <<>>
    /\ wout' = [i \in 1..Len(wslots) |-> wslots[i][1]]
    /\ wpc' = "sequential"
    /\ UNCHANGED <<wdata, wbs, wblocks, wslots, wseq>>
    /\ UNCHANGED notParallel

\* ChecksumGenerator::generate_checksums on a file holding the same bytes
ParallelSequential ==
    /\ wpc = "sequential"
    /\ wseq' = generate_checksums(wdata, wbs)
    /\ wpc' = "done"
    /\ UNCHANGED <<wdata, wbs, wblocks, wslots, wout>>
    /\ UNCHANGED notParallel

NextParallel ==
    \/ ParallelSplit
    \/ \E i \in 1..(MaxLen + 1) : ParallelMap(i)
    \/ ParallelCollect
    \/ ParallelSequential

-----------------------------------------------------------------------------
(* protocol/stream.rs: ProtocolStream::write_varint and read_varint.  An   *)
(* i64 is kept as its eight two's-complement bytes, high byte first, so    *)
(* that the whole 64-bit range is there; `val as i16` and `val as i32`     *)
(* keep the low bytes, and `x as i64` of a shorter integer extends its     *)
(* sign.                                                                   *)

\* the value is in the range of a signed integer of n bytes
fits_signed(val, n) ==
    \A k \in 1..(8 - n) : val[k] = (IF val[9 - n] >= 128 THEN 255 ELSE 0)

\* the low n bytes of the value: the `as` cast to an n-byte integer, big-endian
low_bytes(val, n) == [k \in 1..n |-> val[8 - n + k]]

\* an n-byte big-endian signed integer `as i64`
sign_extend(bytes) ==
    [k \in 1..(8 - Len(bytes)) |-> IF bytes[1] >= 128 THEN 255 ELSE 0] \o bytes

\* ProtocolStream::write_varint: the bytes put on the stream
ProtocolStream_write_varint(val) ==
    IF fits_signed(val, 2) /\ val[7] = 0 /\ val[8] <= 250     \* 0..=250
    THEN <<val[8]>>
    ELSE IF fits_signed(val, 1) /\ val[8] >= 128              \* -128..=-1
    THEN <<254>> \o low_bytes(val, 1)
    ELSE IF fits_signed(val, 2) /\ val[7] < 128               \* 251..=32767
    THEN <<251>> \o low_bytes(val, 2)
    ELSE IF fits_signed(val, 2)                               \* -32768..=-129
    THEN <<255>> \o low_bytes(val, 2)
    ELSE IF fits_signed(val, 4)                               \* the i32 range
    THEN <<252>> \o low_bytes(val, 4)
    ELSE <<253>> \o low_bytes(val, 8)

\* a read_varint that takes the byte after tag 254 as unsigned
ProtocolStream_read_varint_u8(buf) ==
    LET take(n) == IF Len(buf) < 1 + n
                   THEN [res |-> "err", val |-> <<>>, used |-> Len(buf)]
                   ELSE [res |-> "ok", val |-> sign_extend(SubSeq(buf, 2, 1 + n)),
                         used |-> 1 + n]
    IN  IF Len(buf) = 0 THEN [res |-> "err", val |-> <<>>, used |-> 0]
        ELSE IF buf[1] <= 250
        THEN [res |-> "ok", val |-> <<0, 0, 0, 0, 0, 0, 0, buf[1]>>, used |-> 1]
        ELSE IF buf[1] = 251 THEN take(2)
        ELSE IF buf[1] = 252 THEN take(4)
        ELSE IF buf[1] = 253 THEN take(8)
        ELSE IF buf[1] = 254
        THEN IF Len(buf) < 2
             THEN [res |-> "err", val |-> <<>>, used |-> Len(buf)]
             ELSE [res |-> "ok", val |-> <<0, 0, 0, 0, 0, 0, 0, buf[2]>>, used |-> 2]
        ELSE take(2)

\* ProtocolStream::read_varint on the bytes left on the stream: the value and
\* the number of bytes consumed, or the error of a stream that ends early
ProtocolStream_read_varint(buf) ==
    LET take(n) == IF Len(buf) < 1 + n
                   THEN [res |-> "err", val |-> <<>>, used |-> Len(buf)]
                   ELSE [res |-> "ok", val |-> sign_extend(SubSeq(buf, 2, 1 + n)),
                         used |-> 1 + n]
    IN  IF Len(buf) = 0 THEN [res |-> "err", val |-> <<>>, used |-> 0]
        ELSE IF buf[1] <= 250
        THEN [res |-> "ok", val |-> <<0, 0, 0, 0, 0, 0, 0, buf[1]>>, used |-> 1]
        ELSE IF buf[1] = 251 THEN take(2)
        ELSE IF buf[1] = 252 THEN take(4)
        ELSE IF buf[1] = 253 THEN take(8)
        ELSE IF buf[1] = 254 THEN take(1)
        ELSE take(2)

PstreamWrite ==
    /\ jpc = "write"
    /\ jwire' = ProtocolStream_write_varint(jval) \o jtail
    /\ jpc' = "read"
    /\ UNCHANGED <<jval, jtail, jread>>
    /\ UNCHANGED notPstream

PstreamRead ==
    /\ jpc = "read"
    /\ jread' = ProtocolStream_read_varint(jwire)
    /\ jpc' = "done"
    /\ UNCHANGED <<jval, jtail, jwire>>
    /\ UNCHANGED notPstream

NextPstream ==
    \/ PstreamWrite
    \/ PstreamRead

-----------------------------------------------------------------------------
(* The specifications                                                      *)

\* Each specification drives one group of variables and holds the others at
\* their idle values.

IdleDelta ==
    /\ dpc = "idle"
    /\ fRef = <<>>
    /\ fSrc = <<>>
    /\ block_size = 1
    /\ checksums = <<>>
    /\ delta = <<>>
    /\ outPath = "out"
    /\ recvBase = "none"
    /\ dfs = [p \in {"base", "out", "tmp"} |-> Absent]
    /\ instrIdx = 0
    /\ dresult = "none"

IdleFilter ==
    /\ fpc = "idle"
    /\ patterns = <<>>
    /\ firstQuery = <<>>
    /\ lastQuery = <<>>

IdleDecide ==
    /\ decideIn = <<>>
    /\ decideOut = "none"

\* the sync variables that do not depend on the trees and options of a session
StartSync ==
    /\ source_map = NoMap
    /\ dest_map = NoMap
    /\ todoXfer = {}
    /\ todoDel = {}
    /\ deleted = 0
    /\ stats = NoStats
    /\ sresult = "none"
    /\ run = 1
    /\ deletePasses = <<>>
    /\ hist = NoHist
    /\ bakTree = NoBackups

EmptyTree == [p \in SyncPaths |-> NoEntry]

IdleSync ==
    /\ spc = "idle"
    /\ options = DefaultOptions
    /\ srcTree = EmptyTree
    /\ dstTree = EmptyTree
    /\ srcTree0 = EmptyTree
    /\ dstTree0 = EmptyTree
    /\ StartSync

IdleRoll ==
    /\ rpc = "idle"
    /\ rW = [seq |-> <<>>, mul |-> 0, add |-> 0]
    /\ rL = 0
    /\ rI = 0
    /\ rk = 0
    /\ rj = 0
    /\ rolled = [a |-> 0, b |-> 0, block_size |-> 0]
    /\ fresh = [a |-> 0, b |-> 0, block_size |-> 0]

IdleVarint ==
    /\ vpc = "idle"
    /\ vx = 0
    /\ vbytes = <<>>
    /\ vres = [ok |-> FALSE, value |-> 0, consumed |-> 0]

IdleMux ==
    /\ mpc = "idle"
    /\ mvariant = "MultiplexIO"
    /\ mwire = <<>>
    /\ mpos = 0
    /\ mbuf = [start |-> 0, len |-> 0]
    /\ mout = <<>>
    /\ msink = <<>>
    /\ mreads = 0

IdleNegotiate ==
    /\ npc = "idle"
    /\ nlocal = 0
    /\ nremote = 0
    /\ nres = [ok |-> FALSE, version |-> 0, local |-> 0, remote |-> 0]

IdleHandshake ==
    /\ hpc = "idle"
    /\ hrole = "client"
    /\ hremote = <<>>
    /\ hnegotiated = 0
    /\ hlog = <<>>
    /\ hresult = ""

IdleFlist ==
    /\ lpc = "idle"
    /\ lproto = 0
    /\ lvarint = FALSE
    /\ lfiles = <<>>
    /\ lwire = <<>>
    /\ lsstate = <<>>
    /\ lsent = 0
    /\ lrpos = 0
    /\ lrstate = <<>>
    /\ lrecv = <<>>
    /\ lresult = ""

IdleInplace ==
    /\ ipc = "idle"
    /\ iOld = <<>>
    /\ iSrc = <<>>
    /\ ibs = 1
    /\ idelta = <<>>
    /\ ifile = <<>>
    /\ iwbuf = <<>>
    /\ iwpos = 0
    /\ iidx = 0
    /\ iresult = "none"

IdleMain ==
    /\ epc = "idle"
    /\ edaemon = FALSE
    /\ esources = <<>>
    /\ eidx = 0
    /\ efatal = {}
    /\ estatus = <<>>

IdleLoad ==
    /\ gpc = "idle"
    /\ gopts = <<>>
    /\ gdest = FALSE
    /\ gengine = <<>>
    /\ gmut = <<>>
    /\ gresult = "none"

IdleSession ==
    /\ cprog = <<>>
    /\ ccall = <<>>
    /\ cleft = 0
    /\ cres = "none"
    /\ kpc = "idle"
    /\ kmodules = <<>>
    /\ kmodule = <<>>
    /\ kuser = <<>>
    /\ kauth = <<>>
    /\ klisted = FALSE
    /\ kleft = 0
    /\ kwritten = <<>>
    /\ kres = "none"
    /\ c2d = <<>>
    /\ d2c = <<>>

IdleTasks ==
    /\ tdisk = {}
    /\ tdisk0 = {}
    /\ tsessions = <<>>
    /\ tpc = <<>>
    /\ tlog = <<>>
    /\ tnext = <<>>

IdleNdx ==
    /\ xpc = "idle"
    /\ xproto = 0
    /\ xseq = <<>>
    /\ xwire = <<>>
    /\ xwstates = <<>>
    /\ xpos = 0
    /\ xout = <<>>
    /\ xrstates = <<>>
    /\ xok = TRUE

IdleCodec30 ==
    /\ qpc = "idle"
    /\ qcodec = "none"
    /\ qx = 0
    /\ qbytes = <<>>
    /\ qread = <<>>

IdleCross ==
    /\ ypc = "idle"
    /\ ywriter = "none"
    /\ yreader = "none"
    /\ ybuf = <<>>
    /\ ywire = <<>>
    /\ yread = <<>>

IdlePurge ==
    /\ zpc = "idle"
    /\ zopts = <<>>
    /\ zrules = <<>>
    /\ zsrc = <<>>
    /\ zdst = <<>>
    /\ zdst0 = <<>>
    /\ zsmap = {}
    /\ zdmap = {}
    /\ ztodo = {}
    /\ zpass = FALSE
    /\ zres = "none"

IdleParallel ==
    /\ wpc = "idle"
    /\ wdata = <<>>
    /\ wbs = 1
    /\ wblocks = <<>>
    /\ wslots = <<>>
    /\ wout = <<>>
    /\ wseq = <<>>

IdlePstream ==
    /\ jpc = "idle"
    /\ jval = <<>>
    /\ jtail = <<>>
    /\ jwire = <<>>
    /\ jread = <<>>

InitDelta ==
    /\ dpc = "gen"
    /\ fRef \in FileContents
    /\ fSrc \in FileContents
    /\ block_size \in 1..MaxBlock
    /\ checksums = <<>>
    /\ delta = <<>>
    /\ outPath \in {"out", "base"}
    /\ recvBase \in {"base", "none"}
    /\ dfs = [p \in {"base", "out", "tmp"} |->
                 IF p = "base" THEN FileOf(fRef) ELSE Absent]
    /\ instrIdx = 0
    /\ dresult = "none"
    /\ IdleFilter
    /\ IdleDecide
    /\ IdleSync
    /\ IdleRoll
    /\ IdleVarint
    /\ IdleMux
    /\ IdleNegotiate
    /\ IdleHandshake
    /\ IdleFlist
    /\ IdleInplace
    /\ IdleMain
    /\ IdleLoad
    /\ IdleSession
    /\ IdleTasks
    /\ IdleNdx
    /\ IdleCodec30
    /\ IdleCross
    /\ IdlePurge
    /\ IdleParallel
    /\ IdlePstream

InitFilter ==
    /\ fpc = "build"
    /\ patterns = <<>>
    /\ firstQuery = <<>>
    /\ lastQuery = <<>>
    /\ IdleDelta
    /\ IdleDecide
    /\ IdleSync
    /\ IdleRoll
    /\ IdleVarint
    /\ IdleMux
    /\ IdleNegotiate
    /\ IdleHandshake
    /\ IdleFlist
    /\ IdleInplace
    /\ IdleMain
    /\ IdleLoad
    /\ IdleSession
    /\ IdleTasks
    /\ IdleNdx
    /\ IdleCodec30
    /\ IdleCross
    /\ IdlePurge
    /\ IdleParallel
    /\ IdlePstream

\* should_sync is asked about every source file, every destination file (or
\* none) and every setting of update, size_only, checksum
InitDecide ==
    /\ decideIn \in {<<[options |-> o, S |-> sf, D |-> df]>> :
                        o \in DecideOptions, sf \in DecideFiles,
                        df \in {<<>>} \cup {<<f>> : f \in DecideFiles}}
    /\ decideOut = "none"
    /\ IdleDelta
    /\ IdleFilter
    /\ IdleSync
    /\ IdleRoll
    /\ IdleVarint
    /\ IdleMux
    /\ IdleNegotiate
    /\ IdleHandshake
    /\ IdleFlist
    /\ IdleInplace
    /\ IdleMain
    /\ IdleLoad
    /\ IdleSession
    /\ IdleTasks
    /\ IdleNdx
    /\ IdleCodec30
    /\ IdleCross
    /\ IdlePurge
    /\ IdleParallel
    /\ IdlePstream

MakeTree(root, f, d, g) ==
    [p \in SyncPaths |->
        IF p = "" THEN root ELSE IF p = "f" THEN f ELSE IF p = "d" THEN d
        ELSE IF p = "d/g" THEN g ELSE NoEntry]

\* source trees: f or not, no d, an empty d, or d with g in it
SourceTrees ==
    {MakeTree(DirEntry, f, dg[1], dg[2]) :
        f \in {NoEntry, FileEntry(<<0>>, 2)},
        dg \in {<<NoEntry, NoEntry>>, <<DirEntry, NoEntry>>,
                <<DirEntry, FileEntry(<<0>>, 2)>>}}

\* destination trees: no destination directory at all, or one where f is
\* missing, identical, of equal size and time with other bytes, older, or
\* newer and longer; and no d, an empty d, or d with an older, different g
DestTrees ==
    {EmptyTree} \cup
    {MakeTree(DirEntry, f, dg[1], dg[2]) :
        f \in {NoEntry, FileEntry(<<0>>, 2), FileEntry(<<1>>, 2),
               FileEntry(<<0>>, 1), FileEntry(<<1, 1>>, 3)},
        dg \in {<<NoEntry, NoEntry>>, <<DirEntry, NoEntry>>,
                <<DirEntry, FileEntry(<<1, 1>>, 1)>>}}

\* Cli::into_options: each flag is copied into Options as given
into_options(cli) ==
    [DefaultOptions EXCEPT
        !.dry_run = cli.dry_run, !.delete = cli.delete,
        !.delete_before = cli.delete_before, !.delete_during = cli.delete_during,
        !.delete_after = cli.delete_after, !.update = cli.update,
        !.size_only = cli.size_only, !.checksum = cli.checksum,
        !.backup = cli.backup, !.remove_source_files = cli.remove_source_files,
        !.whole_file = cli.whole_file, !.recursive = cli.recursive,
        !.backup_dir = cli.backup_dir]

\* the command lines of the single sessions: every setting of dry-run, the
\* four delete flags, backup, remove-source-files and recursive
SyncCommandLines ==
    {[DefaultOptions EXCEPT
         !.dry_run = n, !.delete = d[1], !.delete_before = d[2],
         !.delete_during = d[3], !.delete_after = d[4], !.backup = b,
         !.remove_source_files = r, !.recursive = rec] :
        n \in BOOLEAN, d \in BOOLEAN \X BOOLEAN \X BOOLEAN \X BOOLEAN,
        b \in BOOLEAN, r \in BOOLEAN, rec \in BOOLEAN}

\* the command lines of the repeated sessions: recursive, with every setting
\* of update, size-only, checksum, whole-file and backup
ResyncCommandLines ==
    {[DefaultOptions EXCEPT
         !.recursive = TRUE,
         !.update = u, !.size_only = s, !.checksum = c, !.whole_file = w,
         !.backup = b] :
        u \in BOOLEAN, s \in BOOLEAN, c \in BOOLEAN, w \in BOOLEAN, b \in BOOLEAN}

InitSync ==
    /\ spc = "start"
    /\ options \in {into_options(cli) : cli \in SyncCommandLines}
    /\ srcTree \in SourceTrees
    /\ dstTree \in DestTrees
    /\ srcTree0 = srcTree
    /\ dstTree0 = dstTree
    /\ StartSync
    /\ IdleDelta
    /\ IdleFilter
    /\ IdleDecide
    /\ IdleRoll
    /\ IdleVarint
    /\ IdleMux
    /\ IdleNegotiate
    /\ IdleHandshake
    /\ IdleFlist
    /\ IdleInplace
    /\ IdleMain
    /\ IdleLoad
    /\ IdleSession
    /\ IdleTasks
    /\ IdleNdx
    /\ IdleCodec30
    /\ IdleCross
    /\ IdlePurge
    /\ IdleParallel
    /\ IdlePstream

InitResync ==
    /\ spc = "start"
    /\ options \in {into_options(cli) : cli \in ResyncCommandLines}
    /\ srcTree \in SourceTrees
    /\ dstTree \in DestTrees
    /\ srcTree0 = srcTree
    /\ dstTree0 = dstTree
    /\ StartSync
    /\ IdleDelta
    /\ IdleFilter
    /\ IdleDecide
    /\ IdleRoll
    /\ IdleVarint
    /\ IdleMux
    /\ IdleNegotiate
    /\ IdleHandshake
    /\ IdleFlist
    /\ IdleInplace
    /\ IdleMain
    /\ IdleLoad
    /\ IdleSession
    /\ IdleTasks
    /\ IdleNdx
    /\ IdleCodec30
    /\ IdleCross
    /\ IdlePurge
    /\ IdleParallel
    /\ IdlePstream

\* byte values of the explicit windows
RollBytes == {0, 1, 255}
\* short windows: every W of length L + i over RollBytes
ShortWindows ==
    {[W |-> [seq |-> s, mul |-> 0, add |-> 0], L |-> l, i |-> i] :
        l \in 1..3, i \in 0..2, s \in UNION {[1..n -> RollBytes] : n \in 1..5}}
\* long windows: L at and above 2^16, W generated
LongWindows ==
    {[W |-> [seq |-> <<>>, mul |-> m[1], add |-> m[2]], L |-> l, i |-> i] :
        m \in {<<0, 255>>, <<7, 3>>}, l \in {65536, 65537}, i \in {1, 2}}

InitRoll ==
    /\ rpc = "init"
    /\ \E c \in {x \in ShortWindows : Len(x.W.seq) = x.L + x.i} \cup LongWindows :
          /\ rW = c.W
          /\ rL = c.L
          /\ rI = c.i
    /\ rk = 0
    /\ rj = 0
    /\ rolled = [a |-> 0, b |-> 0, block_size |-> rL]
    /\ fresh = [a |-> 0, b |-> 0, block_size |-> rL]
    /\ IdleDelta
    /\ IdleFilter
    /\ IdleDecide
    /\ IdleSync
    /\ IdleVarint
    /\ IdleMux
    /\ IdleNegotiate
    /\ IdleHandshake
    /\ IdleFlist
    /\ IdleInplace
    /\ IdleMain
    /\ IdleLoad
    /\ IdleSession
    /\ IdleTasks
    /\ IdleNdx
    /\ IdleCodec30
    /\ IdleCross
    /\ IdlePurge
    /\ IdleParallel
    /\ IdlePstream

\* the values written: everything near zero, and the edges of each width
VarintValues ==
    (-300..300) \cup {-32769, -32768, -32767, 32766, 32767, 32768, 65535, 65536,
                      -2147483647 - 1, 2147483647}

InitVarint ==
    /\ vpc = "write"
    /\ vx \in VarintValues
    /\ vbytes = <<>>
    /\ vres = [ok |-> FALSE, value |-> 0, consumed |-> 0]
    /\ IdleDelta
    /\ IdleFilter
    /\ IdleDecide
    /\ IdleSync
    /\ IdleRoll
    /\ IdleMux
    /\ IdleNegotiate
    /\ IdleHandshake
    /\ IdleFlist
    /\ IdleInplace
    /\ IdleMain
    /\ IdleLoad
    /\ IdleSession
    /\ IdleTasks
    /\ IdleNdx
    /\ IdleCodec30
    /\ IdleCross
    /\ IdlePurge
    /\ IdleParallel
    /\ IdlePstream

InitMux ==
    /\ mpc = "open"
    /\ mvariant \in {"MultiplexIO", "MultiplexWriter"}
    /\ mwire = <<>>
    /\ mpos = 0
    /\ mbuf = [start |-> 0, len |-> 0]
    /\ mout = <<>>
    /\ msink = <<>>
    /\ mreads = 0
    /\ IdleDelta
    /\ IdleFilter
    /\ IdleDecide
    /\ IdleSync
    /\ IdleRoll
    /\ IdleVarint
    /\ IdleNegotiate
    /\ IdleHandshake
    /\ IdleFlist
    /\ IdleInplace
    /\ IdleMain
    /\ IdleLoad
    /\ IdleSession
    /\ IdleTasks
    /\ IdleNdx
    /\ IdleCodec30
    /\ IdleCross
    /\ IdlePurge
    /\ IdleParallel
    /\ IdlePstream

InitNegotiate ==
    /\ npc = "call"
    /\ nlocal \in PeerVersions
    /\ nremote \in PeerVersions
    /\ nres = [ok |-> FALSE, version |-> 0, local |-> 0, remote |-> 0]
    /\ IdleDelta
    /\ IdleFilter
    /\ IdleDecide
    /\ IdleSync
    /\ IdleRoll
    /\ IdleVarint
    /\ IdleMux
    /\ IdleHandshake
    /\ IdleFlist
    /\ IdleInplace
    /\ IdleMain
    /\ IdleLoad
    /\ IdleSession
    /\ IdleTasks
    /\ IdleNdx
    /\ IdleCodec30
    /\ IdleCross
    /\ IdlePurge
    /\ IdleParallel
    /\ IdlePstream

InitHandshake ==
    /\ hpc = "read_version"
    /\ hrole \in {"client", "daemon"}
    /\ hremote = <<>>
    /\ hnegotiated = 0
    /\ hlog = <<>>
    /\ hresult = ""
    /\ IdleDelta
    /\ IdleFilter
    /\ IdleDecide
    /\ IdleSync
    /\ IdleRoll
    /\ IdleVarint
    /\ IdleMux
    /\ IdleNegotiate
    /\ IdleFlist
    /\ IdleInplace
    /\ IdleMain
    /\ IdleLoad
    /\ IdleSession
    /\ IdleTasks
    /\ IdleNdx
    /\ IdleCodec30
    /\ IdleCross
    /\ IdlePurge
    /\ IdleParallel
    /\ IdlePstream

MaxEntries == 2
\* FileEntry::from_file_info: mode 0o644, uid 0, gid 0
from_file_info(path, size, mtime, kind) ==
    [path |-> path, mode |-> 420, len |-> size, modtime |-> mtime,
     uid |-> 0, gid |-> 0, is_dir |-> kind = "dir",
     is_symlink |-> kind = "link",
     symlink_target |-> IF kind = "link" THEN <<(<<116>>)>> ELSE <<>>]
FlistEntries ==
    {from_file_info(p, s, t, k) :
        p \in {<<97>>, <<97, 98>>}, s \in {1, 255, 16777216}, t \in {0, 5},
        k \in {"file", "dir", "link"}}
\* the protocol versions and whether CF_VARINT_FLIST_FLAGS was received
\* (compat flags are read from protocol 30 on)
FlistProtocols ==
    {<<27, FALSE>>, <<29, FALSE>>, <<30, FALSE>>, <<31, FALSE>>, <<31, TRUE>>}

InitFlist ==
    /\ lpc = "send"
    /\ \E c \in FlistProtocols : lproto = c[1] /\ lvarint = c[2]
    /\ lfiles \in UNION {[1..n -> FlistEntries] : n \in 0..MaxEntries}
    /\ lwire = <<>>
    /\ lsstate = FileListStateNew
    /\ lsent = 0
    /\ lrpos = 0
    /\ lrstate = StateBits(FileListStateNew)
    /\ lrecv = <<>>
    /\ lresult = ""
    /\ IdleDelta
    /\ IdleFilter
    /\ IdleDecide
    /\ IdleSync
    /\ IdleRoll
    /\ IdleVarint
    /\ IdleMux
    /\ IdleNegotiate
    /\ IdleHandshake
    /\ IdleInplace
    /\ IdleMain
    /\ IdleLoad
    /\ IdleSession
    /\ IdleTasks
    /\ IdleNdx
    /\ IdleCodec30
    /\ IdleCross
    /\ IdlePurge
    /\ IdleParallel
    /\ IdlePstream

\* the block sizes: small ones, and the one sync_file computes
InitInplace ==
    /\ ipc = "delta"
    /\ iOld \in FileContents
    /\ iSrc \in FileContents
    /\ ibs \in (1..MaxBlock) \cup {calculate_block_size(Len(iSrc))}
    /\ idelta = <<>>
    /\ ifile = iOld
    /\ iwbuf = <<>>
    /\ iwpos = 0
    /\ iidx = 0
    /\ iresult = "none"
    /\ IdleDelta
    /\ IdleFilter
    /\ IdleDecide
    /\ IdleSync
    /\ IdleRoll
    /\ IdleVarint
    /\ IdleMux
    /\ IdleNegotiate
    /\ IdleHandshake
    /\ IdleFlist
    /\ IdleMain
    /\ IdleLoad
    /\ IdleSession
    /\ IdleTasks
    /\ IdleNdx
    /\ IdleCodec30
    /\ IdleCross
    /\ IdlePurge
    /\ IdleParallel
    /\ IdlePstream

\* trees with two files of one name: f and d/f (and d/g, and a backup f~ left
\* by an earlier session)
MakeBackupTree(f, df, dg, fb) ==
    [p \in SyncPaths |->
        IF p = "" THEN DirEntry ELSE IF p = "f" THEN f
        ELSE IF p = "d" THEN (IF df.kind = "none" /\ dg.kind = "none"
                              THEN NoEntry ELSE DirEntry)
        ELSE IF p = "d/f" THEN df ELSE IF p = "d/g" THEN dg
        ELSE IF p = "f~" THEN fb ELSE NoEntry]
BackupSourceTrees ==
    {MakeBackupTree(FileEntry(<<0>>, 2), df, NoEntry, NoEntry) :
        df \in {NoEntry, FileEntry(<<0, 0>>, 2)}}
BackupDestTrees ==
    {MakeBackupTree(f, df, dg, fb) :
        f \in {NoEntry, FileEntry(<<1>>, 1)},
        df \in {NoEntry, FileEntry(<<1, 1>>, 1)},
        dg \in {NoEntry, FileEntry(<<1>>, 1)},
        fb \in {NoEntry, FileEntry(<<0, 1>>, 1)}}
\* the command lines with --backup: with and without --backup-dir, every
\* setting of dry-run and whole-file, no delete, delete, delete-before
BackupCommandLines ==
    {[DefaultOptions EXCEPT
         !.backup = TRUE, !.recursive = TRUE, !.backup_dir = bd,
         !.dry_run = n, !.whole_file = w,
         !.delete = d[1], !.delete_before = d[2]] :
        bd \in {<<>>, <<"bk">>}, n \in BOOLEAN, w \in BOOLEAN,
        d \in {<<FALSE, FALSE>>, <<TRUE, FALSE>>, <<TRUE, TRUE>>}}

InitBackup ==
    /\ spc = "start"
    /\ options \in {into_options(cli) : cli \in BackupCommandLines}
    /\ srcTree \in BackupSourceTrees
    /\ dstTree \in BackupDestTrees
    /\ srcTree0 = srcTree
    /\ dstTree0 = dstTree
    /\ StartSync
    /\ IdleDelta
    /\ IdleFilter
    /\ IdleDecide
    /\ IdleRoll
    /\ IdleVarint
    /\ IdleMux
    /\ IdleNegotiate
    /\ IdleHandshake
    /\ IdleFlist
    /\ IdleInplace
    /\ IdleMain
    /\ IdleLoad
    /\ IdleSession
    /\ IdleTasks
    /\ IdleNdx
    /\ IdleCodec30
    /\ IdleCross
    /\ IdlePurge
    /\ IdleParallel
    /\ IdlePstream

\* most sources on a command line
MaxSources == 3
InitMain ==
    /\ epc = "init"
    /\ edaemon \in BOOLEAN
    /\ esources \in UNION {[1..n -> Transports] : n \in 1..MaxSources}
    /\ eidx = 0
    /\ efatal = {}
    /\ estatus = <<>>
    /\ IdleDelta
    /\ IdleFilter
    /\ IdleDecide
    /\ IdleSync
    /\ IdleRoll
    /\ IdleVarint
    /\ IdleMux
    /\ IdleNegotiate
    /\ IdleHandshake
    /\ IdleFlist
    /\ IdleInplace
    /\ IdleLoad
    /\ IdleSession
    /\ IdleTasks
    /\ IdleNdx
    /\ IdleCodec30
    /\ IdleCross
    /\ IdlePurge
    /\ IdleParallel
    /\ IdlePstream

\* --exclude / --include lists: a pattern that compiles, one that does not
PatternLists ==
    { <<>>, <<(<<"b">>)>>, <<(<<"[">>)>>, <<(<<"b">>), (<<"[">>)>>,
      <<(<<"[", "a", "]">>)>> }
\* --exclude-from / --include-from lists: none, a file that cannot be
\* opened, files with comment lines, blank lines and patterns
RuleFileLists ==
    { <<>>,
      <<(<<>>)>>,
      <<(<< <<(<<"#", "[">>), <<>>, (<<" ", "b", " ">>)>> >>)>>,
      <<(<< <<(<<"b">>), (<<" ", "[">>)>> >>)>>,
      <<(<<>>), (<< <<(<<"[">>)>> >>)>> }
InitLoad ==
    /\ gpc = "canon"
    /\ gopts \in [dry_run : BOOLEAN, list_only : BOOLEAN,
                  exclude : PatternLists, include : PatternLists,
                  exclude_from : RuleFileLists, include_from : RuleFileLists]
    /\ gdest \in BOOLEAN
    /\ gengine = <<>>
    /\ gmut = <<>>
    /\ gresult = "none"
    /\ IdleDelta
    /\ IdleFilter
    /\ IdleDecide
    /\ IdleSync
    /\ IdleRoll
    /\ IdleVarint
    /\ IdleMux
    /\ IdleNegotiate
    /\ IdleHandshake
    /\ IdleFlist
    /\ IdleInplace
    /\ IdleMain
    /\ IdleSession
    /\ IdleTasks
    /\ IdleNdx
    /\ IdleCodec30
    /\ IdleCross
    /\ IdlePurge
    /\ IdleParallel
    /\ IdlePstream

\* the module table of the daemon: one module, with or without auth_users,
\* with or without a secrets file, writable or not, empty or holding a file
ModuleName == <<109>>
alice == <<97>>
bob == <<98>>
Passwords == {<<49>>, <<50>>}
ModuleTrees ==
    { <<[path |-> <<>>, size |-> 0, mtime |-> 5, dir |-> TRUE]>>,
      <<[path |-> <<>>, size |-> 0, mtime |-> 5, dir |-> TRUE],
        [path |-> <<97>>, size |-> 1, mtime |-> 7, dir |-> FALSE]>> }
ModuleTables ==
    { [name \in {ModuleName} |->
          [path |-> ModuleRoot, read_only |-> ro, auth_users |-> au,
           secrets |-> sec, files |-> fl]] :
      ro \in BOOLEAN, au \in {<<>>, <<{alice}>>},
      sec \in {<<>>, <<[user |-> alice, pass |-> <<49>>],
                       [user |-> bob, pass |-> <<50>>]>>},
      fl \in ModuleTrees }

\* what Scanner::scan gives upload for local_path: an empty directory, a
\* directory with a file, one with a file in a directory, and a file
LocalTrees ==
    { <<[path |-> <<>>, dir |-> TRUE, data |-> <<>>]>>,
      <<[path |-> <<>>, dir |-> TRUE, data |-> <<>>],
        [path |-> <<97>>, dir |-> FALSE, data |-> <<1>>]>>,
      <<[path |-> <<>>, dir |-> TRUE, data |-> <<>>],
        [path |-> <<100>>, dir |-> TRUE, data |-> <<>>],
        [path |-> <<100, 47, 97>>, dir |-> FALSE, data |-> <<1, 2>>]>>,
      <<[path |-> <<>>, dir |-> FALSE, data |-> <<1>>]>> }

\* the paths another client sends: "a", "d/a", "/x", "../x", "d/../../x"
PeerPaths ==
    { <<97>>, <<100, 47, 97>>, <<47, 120>>, <<46, 46, 47, 120>>,
      <<100, 47, 46, 46, 47, 46, 46, 47, 120>> }

call(kind, module, local_files, username, password) ==
    [kind |-> kind, module |-> module, local_files |-> local_files,
     username |-> username, password |-> password]

ClientCalls ==
    {call("download", m, <<>>, <<>>, <<>>) : m \in {ModuleName, <<120>>}}
    \cup {call("upload", ModuleName, t, <<>>, <<>>) : t \in LocalTrees}
    \cup {call("login", ModuleName, <<>>, u, p) :
              u \in {alice, bob}, p \in Passwords}
    \cup {call("send", ModuleName,
               <<[path |-> p, dir |-> FALSE, data |-> <<1>>]>>, <<>>, <<>>) :
              p \in PeerPaths}

program(c) ==
    IF c.kind = "download" THEN download(c.module)
    ELSE IF c.kind = "upload" THEN upload(c.module, c.local_files)
    ELSE IF c.kind = "login" THEN peer_login(c.module, c.username, c.password)
    ELSE peer_upload(c.module, c.local_files)

InitSession ==
    /\ ccall \in ClientCalls
    /\ cprog = program(ccall)
    /\ cleft = 0
    /\ cres = "none"
    /\ kpc = "version"
    /\ kmodules \in ModuleTables
    /\ kmodule = <<>>
    /\ kuser = <<>>
    /\ kauth = <<>>
    /\ klisted = FALSE
    /\ kleft = 0
    /\ kwritten = <<>>
    /\ kres = "none"
    /\ c2d = <<>>
    /\ d2c = <<>>
    /\ IdleDelta
    /\ IdleFilter
    /\ IdleDecide
    /\ IdleSync
    /\ IdleRoll
    /\ IdleVarint
    /\ IdleMux
    /\ IdleNegotiate
    /\ IdleHandshake
    /\ IdleFlist
    /\ IdleInplace
    /\ IdleMain
    /\ IdleLoad
    /\ IdleTasks
    /\ IdleNdx
    /\ IdleCodec30
    /\ IdleCross
    /\ IdlePurge
    /\ IdleParallel
    /\ IdlePstream

\* two modules with disjoint trees; session 1 sends the files a and c,
\* session 2 the file b, so the sessions never write the same file
TaskModules == {"m", "n"}
TaskDisks ==
    { {}, {[module |-> "m", name |-> "z", data |-> 0]},
      {[module |-> "m", name |-> "a", data |-> 0],
       [module |-> "n", name |-> "z", data |-> 0]} }
TaskRecords ==
    [ Tasks ->
        { <<>>, <<[name |-> "a", data |-> 1]>>, <<[name |-> "b", data |-> 2]>>,
          <<[name |-> "a", data |-> 1], [name |-> "c", data |-> 1]>> } ]
TaskSessions ==
    { [i \in Tasks |-> [module |-> mo[i], records |-> re[i]]] :
      mo \in [Tasks -> TaskModules],
      re \in { r \in TaskRecords :
                 /\ \A k \in 1..Len(r[1]) : r[1][k].name \in {"a", "c"}
                 /\ \A k \in 1..Len(r[2]) : r[2][k].name = "b" } }

InitTasks ==
    /\ tdisk0 \in TaskDisks
    /\ tdisk = tdisk0
    /\ tsessions \in TaskSessions
    /\ tpc = [i \in Tasks |-> "connect"]
    /\ tlog = [i \in Tasks |-> <<>>]
    /\ tnext = [i \in Tasks |-> 1]
    /\ IdleDelta
    /\ IdleFilter
    /\ IdleDecide
    /\ IdleSync
    /\ IdleRoll
    /\ IdleVarint
    /\ IdleMux
    /\ IdleNegotiate
    /\ IdleHandshake
    /\ IdleFlist
    /\ IdleInplace
    /\ IdleMain
    /\ IdleLoad
    /\ IdleSession
    /\ IdleNdx
    /\ IdleCodec30
    /\ IdleCross
    /\ IdlePurge
    /\ IdleParallel
    /\ IdlePstream

\* file indices near and far from each other, NDX_DONE, NDX_FLIST_EOF and
\* other negative values; sequences of up to MaxNdx of them
MaxNdx == 2
NdxValues == {0, 1, 2, 252, 253, 254, 300, 40000, NDX_DONE, NDX_FLIST_EOF, -3, -300}
NdxSequences == UNION {[1..n -> NdxValues] : n \in 1..MaxNdx}

InitNdx ==
    /\ xpc = "write"
    /\ xproto \in {29, 30, 31}
    /\ xseq \in NdxSequences
    /\ xwire = <<>>
    /\ xwstates = <<>>
    /\ xpos = 0
    /\ xout = <<>>
    /\ xrstates = <<>>
    /\ xok = TRUE
    /\ IdleDelta
    /\ IdleFilter
    /\ IdleDecide
    /\ IdleSync
    /\ IdleRoll
    /\ IdleVarint
    /\ IdleMux
    /\ IdleNegotiate
    /\ IdleHandshake
    /\ IdleFlist
    /\ IdleInplace
    /\ IdleMain
    /\ IdleLoad
    /\ IdleSession
    /\ IdleTasks
    /\ IdleCodec30
    /\ IdleCross
    /\ IdlePurge
    /\ IdleParallel
    /\ IdlePstream

\* the values written: the small ones up to MaxShort and the ones at the
\* edges of the short, the standard and the extended forms
MaxShort == 40
Values30 ==
    (0..MaxShort)
    \cup {127, 128, 253, 254, 255, 256, 300, 65279, 65535, 65536, 16711680,
          16777215, 16777216, 1073741823, 1073741824, 2147483647, -1, -2, -300}

InitCodec30 ==
    /\ qpc = "write"
    /\ qcodec \in {"varint30", "varlong30"}
    /\ qx \in Values30
    /\ qbytes = <<>>
    /\ qread = <<>>
    /\ IdleDelta
    /\ IdleFilter
    /\ IdleDecide
    /\ IdleSync
    /\ IdleRoll
    /\ IdleVarint
    /\ IdleMux
    /\ IdleNegotiate
    /\ IdleHandshake
    /\ IdleFlist
    /\ IdleInplace
    /\ IdleMain
    /\ IdleLoad
    /\ IdleSession
    /\ IdleTasks
    /\ IdleNdx
    /\ IdleCross
    /\ IdlePurge
    /\ IdleParallel
    /\ IdlePstream

\* the buffers written: up to MaxPayload bytes, header-like bytes included
MaxPayload == 3
PayloadBytes == {0, 7, 65}
CrossBuffers == UNION {[1..n -> PayloadBytes] : n \in 1..MaxPayload}

InitCross ==
    /\ ypc = "write"
    /\ ywriter \in {"MultiplexIO", "MultiplexWriter"}
    /\ yreader \in {"MultiplexIO", "MultiplexWriter"}
    /\ ybuf \in CrossBuffers
    /\ ywire = <<>>
    /\ yread = <<>>
    /\ IdleDelta
    /\ IdleFilter
    /\ IdleDecide
    /\ IdleSync
    /\ IdleRoll
    /\ IdleVarint
    /\ IdleMux
    /\ IdleNegotiate
    /\ IdleHandshake
    /\ IdleFlist
    /\ IdleInplace
    /\ IdleMain
    /\ IdleLoad
    /\ IdleSession
    /\ IdleTasks
    /\ IdleNdx
    /\ IdleCodec30
    /\ IdlePurge
    /\ IdleParallel
    /\ IdlePstream

\* trees in which a file in d has its directory d
PurgeTrees ==
    { t \in [PurgePaths -> {"none", "file", "dir"}] :
        /\ t[<<>>] = "dir"
        /\ t[<<"a">>] # "dir" /\ t[<<"b">>] # "dir"
        /\ t[<<"d">>] # "file"
        /\ t[<<"d", "/", "a">>] # "dir" /\ t[<<"d", "/", "b">>] # "dir"
        /\ t[<<"d">>] = "none" =>
              (t[<<"d", "/", "a">>] = "none" /\ t[<<"d", "/", "b">>] = "none") }
\* source trees: without d/b
PurgeSources == { t \in PurgeTrees : t[<<"d", "/", "b">>] = "none" /\ t[<<"b">>] = "none" }
\* the rules of --exclude: none, b, d/
PurgeRules ==
    { <<>>, <<FilterPatternNew(<<"b">>, "Exclude")>>,
      <<FilterPatternNew(<<"d", "/">>, "Exclude")>> }

InitPurge ==
    /\ zpc = "start"
    /\ zopts \in [dry_run : BOOLEAN, recursive : BOOLEAN, delete_after : BOOLEAN]
    /\ zrules \in PurgeRules
    /\ zsrc \in PurgeSources
    /\ zdst \in PurgeTrees
    /\ zdst0 = zdst
    /\ zsmap = {}
    /\ zdmap = {}
    /\ ztodo = {}
    /\ zpass = FALSE
    /\ zres = "none"
    /\ IdleDelta
    /\ IdleFilter
    /\ IdleDecide
    /\ IdleSync
    /\ IdleRoll
    /\ IdleVarint
    /\ IdleMux
    /\ IdleNegotiate
    /\ IdleHandshake
    /\ IdleFlist
    /\ IdleInplace
    /\ IdleMain
    /\ IdleLoad
    /\ IdleSession
    /\ IdleTasks
    /\ IdleNdx
    /\ IdleCodec30
    /\ IdleCross
    /\ IdleParallel
    /\ IdlePstream

InitParallel ==
    /\ wpc = "split"
    /\ wdata \in FileContents
    /\ wbs \in 1..MaxBlock
    /\ wblocks = <<>>
    /\ wslots = <<>>
    /\ wout = <<>>
    /\ wseq = <<>>
    /\ IdleDelta
    /\ IdleFilter
    /\ IdleDecide
    /\ IdleSync
    /\ IdleRoll
    /\ IdleVarint
    /\ IdleMux
    /\ IdleNegotiate
    /\ IdleHandshake
    /\ IdleFlist
    /\ IdleInplace
    /\ IdleMain
    /\ IdleLoad
    /\ IdleSession
    /\ IdleTasks
    /\ IdleNdx
    /\ IdleCodec30
    /\ IdleCross
    /\ IdlePurge
    /\ IdlePstream

\* i64 values around every boundary of the encoding: the high four bytes, then
\* the bytes 5 to 8, each from the values where an arm of the match changes
HighHalves ==
    {<<0, 0, 0, 0>>, <<255, 255, 255, 255>>, <<0, 0, 0, 1>>,
     <<127, 255, 255, 255>>, <<128, 0, 0, 0>>, <<255, 255, 255, 254>>}
LowHalves ==
    {<<b5, b6, b7, b8>> : b5 \in {0, 127, 128, 255}, b6 \in {0, 255},
                          b7 \in {0, 127, 128, 255},
                          b8 \in {0, 1, 127, 128, 250, 251, 255}}
ValuesI64 == {h \o l : h \in HighHalves, l \in LowHalves}

InitPstream ==
    /\ jpc = "write"
    /\ jval \in ValuesI64
    /\ jtail \in {<<>>, <<7>>, <<253, 0>>}
    /\ jwire = <<>>
    /\ jread = <<>>
    /\ IdleDelta
    /\ IdleFilter
    /\ IdleDecide
    /\ IdleSync
    /\ IdleRoll
    /\ IdleVarint
    /\ IdleMux
    /\ IdleNegotiate
    /\ IdleHandshake
    /\ IdleFlist
    /\ IdleInplace
    /\ IdleMain
    /\ IdleLoad
    /\ IdleSession
    /\ IdleTasks
    /\ IdleNdx
    /\ IdleCodec30
    /\ IdleCross
    /\ IdlePurge
    /\ IdleParallel

SpecDelta == InitDelta /\ [][NextDelta]_vars

SpecFilter == InitFilter /\ [][NextFilter]_vars

SpecDecide == InitDecide /\ [][NextDecide]_vars

SpecSync == InitSync /\ [][NextSync]_vars

SpecResync == InitResync /\ [][NextResync]_vars

SpecRoll == InitRoll /\ [][NextRoll]_vars

SpecVarint == InitVarint /\ [][NextVarint]_vars

SpecMux == InitMux /\ [][NextMux]_vars

SpecNegotiate == InitNegotiate /\ [][NextNegotiate]_vars

SpecHandshake == InitHandshake /\ [][NextHandshake]_vars

SpecFlist == InitFlist /\ [][NextFlist]_vars

SpecInplace == InitInplace /\ [][NextInplace]_vars

SpecBackup == InitBackup /\ [][NextSync]_vars

SpecMain == InitMain /\ [][NextMain]_vars

SpecLoad == InitLoad /\ [][NextLoad]_vars

SpecSession == InitSession /\ [][NextSession]_vars

SpecTasks == InitTasks /\ [][NextTasks]_vars

SpecNdx == InitNdx /\ [][NextNdx]_vars

SpecCodec30 == InitCodec30 /\ [][NextCodec30]_vars

SpecCross == InitCross /\ [][NextCross]_vars

SpecPurge == InitPurge /\ [][NextPurge]_vars

SpecParallel == InitParallel /\ [][NextParallel]_vars

SpecPstream == InitPstream /\ [][NextPstream]_vars

-----------------------------------------------------------------------------
(* Properties of the delta pipeline                                        *)

\* what was at the output path before reconstruct_file was called
OutputBefore == IF outPath = "base" THEN FileOf(fRef) ELSE Absent

\* C1: round-trip identity.  When reconstruct_file (atomic mode, base file
\* given) returns Ok on the delta computed from the source and the
\* signatures of the reference, the output holds exactly the source bytes.
RoundTripIdentity ==
    (dpc = "done" /\ dresult = "ok" /\ recvBase = "base")
        => (dfs[outPath].exists /\ dfs[outPath].bytes = fSrc)

\* C2: atomic placement.  When reconstruct_file returns an error, the output
\* path holds what it held before the call (nothing, if it was absent).
AtomicPlacement ==
    (dpc = "done" /\ dresult = "err") => dfs[outPath] = OutputBefore

\* C2 witness: the call failed after at least one instruction was applied,
\* with an existing destination.
AtomicPlacementWitness ==
    /\ dpc = "done"
    /\ dresult = "err"
    /\ instrIdx > 1
    /\ outPath = "base"
    /\ fRef # <<>>

-----------------------------------------------------------------------------
(* Properties of the filter engine                                         *)

\* the rules of the engine that match a path, by position
MatchingRules(rules, path) == {i \in 1..Len(rules) : matches(rules[i], path)}

\* the smallest position in a non-empty set of positions
FirstOf(S) == CHOOSE i \in S : \A j \in S : i <= j

\* C9: first match wins.  Every answer of should_include is the polarity of
\* the matching rule that was inserted first (include: true, exclude:
\* false), and true when no rule matches.
FirstMatchWins ==
    lastQuery # <<>> =>
        LET m == MatchingRules(patterns, lastQuery[1].path)
        IN  lastQuery[1].verdict =
                (IF m = {} THEN TRUE
                 ELSE patterns[FirstOf(m)].pattern_type = "Include")

\* C9 witness: a path answered while two rules of opposite polarity match it,
\* the first one an exclude rule
FirstMatchWinsWitness ==
    /\ lastQuery # <<>>
    /\ \E i, j \in MatchingRules(patterns, lastQuery[1].path) :
          /\ i < j
          /\ i = FirstOf(MatchingRules(patterns, lastQuery[1].path))
          /\ patterns[i].pattern_type = "Exclude"
          /\ patterns[j].pattern_type = "Include"
    /\ lastQuery[1].verdict = FALSE

\* two rules share a path that both match
Overlap(r1, r2) == \E path \in QueryPaths : matches(r1, path) /\ matches(r2, path)

\* the rule list with the rules at positions i and j exchanged
SwapRules(rules, i, j) ==
    [k \in 1..Len(rules) |-> IF k = i THEN rules[j] ELSE IF k = j THEN rules[i] ELSE rules[k]]

SameVerdicts(rules1, rules2) ==
    \A path \in QueryPaths : should_include(rules1, path) = should_include(rules2, path)

\* repeated queries of one path get one answer
RepeatedQueriesAgree ==
    (firstQuery # <<>> /\ lastQuery # <<>> /\ firstQuery[1].path = lastQuery[1].path)
        => firstQuery[1].verdict = lastQuery[1].verdict

\* C10 as stated: queries are repeatable, and exchanging ANY two rules whose
\* patterns match no common path leaves every verdict unchanged.
FilterDeterminismAnySwap ==
    /\ RepeatedQueriesAgree
    /\ \A i, j \in 1..Len(patterns) :
          (i < j /\ ~Overlap(patterns[i], patterns[j]))
              => SameVerdicts(SwapRules(patterns, i, j), patterns)

\* C10 amended: queries are repeatable, and exchanging two rules whose
\* patterns match no common path, and that share no path with any rule that
\* lies between them, leaves every verdict unchanged.
FilterDeterminism ==
    /\ RepeatedQueriesAgree
    /\ \A i, j \in 1..Len(patterns) :
          (/\ i < j
           /\ ~Overlap(patterns[i], patterns[j])
           /\ \A k \in (i + 1)..(j - 1) :
                 ~Overlap(patterns[i], patterns[k]) /\ ~Overlap(patterns[k], patterns[j]))
              => SameVerdicts(SwapRules(patterns, i, j), patterns)

\* C10 witness: an engine with two rules of opposite polarity that match no
\* common path, each matching some path, was queried twice for one path
FilterDeterminismWitness ==
    /\ firstQuery # <<>> /\ lastQuery # <<>>
    /\ firstQuery[1].path = lastQuery[1].path
    /\ Len(patterns) >= 2
    /\ ~Overlap(patterns[1], patterns[2])
    /\ patterns[1].pattern_type # patterns[2].pattern_type
    /\ matches(patterns[1], lastQuery[1].path)
    /\ \E path \in QueryPaths : matches(patterns[2], path)

-----------------------------------------------------------------------------
(* Properties of should_sync                                               *)

\* the per-file decision table, read top-down; the default comparison is the
\* one used when neither size-only nor checksum selects another
DecisionTable(c, S, D) ==
    IF D = <<>> THEN "transfer"
    ELSE IF c.update /\ D[1].mtime > S.mtime THEN "skip"
    ELSE IF c.size_only /\ Len(D[1].bytes) = Len(S.bytes) THEN "skip"
    ELSE IF c.checksum /\ D[1].bytes = S.bytes THEN "skip"
    ELSE IF ~c.size_only /\ ~c.checksum
            /\ Len(D[1].bytes) = Len(S.bytes) /\ D[1].mtime = S.mtime THEN "skip"
    ELSE "transfer"

\* C6: should_sync decides as the decision table read top-down, for every
\* setting of update, size-only and checksum and every relation of the
\* sizes, modification times and contents of the two files.
ShouldSyncTable ==
    decideOut # "none" =>
        decideOut = DecisionTable(decideIn[1].options, decideIn[1].S, decideIn[1].D)

\* C6 witness: with update and checksum set, a destination that is not newer
\* and has the size and time of the source but other bytes is transferred
ShouldSyncTableWitness ==
    /\ decideOut = "transfer"
    /\ decideIn[1].options.update
    /\ decideIn[1].options.checksum
    /\ decideIn[1].D # <<>>
    /\ decideIn[1].D[1].mtime = decideIn[1].S.mtime
    /\ Len(decideIn[1].D[1].bytes) = Len(decideIn[1].S.bytes)
    /\ decideIn[1].D[1].bytes # decideIn[1].S.bytes

-----------------------------------------------------------------------------
(* Properties of the local sync driver                                     *)

Finished == spc = "done" /\ sresult = "ok"

\* the paths a tree holds, with what kind of entry
Entries(tree) == {<<p, tree[p].kind>> : p \in {q \in SyncPaths : exists(tree, q)}}

\* the destination entries that were absent from the source when the session started
ExtrasAtStart == {p \in SyncPaths : exists(dstTree0, p) /\ ~exists(srcTree0, p)}

\* C3: idempotent sync.  A sync call that follows a successful one with the
\* same options on an unchanged source tree reports transferred_files = 0.
IdempotentSync ==
    (Finished /\ run >= 2) => stats.transferred_files = 0

\* C4 as stated: after a successful non-dry-run session with delete, the
\* destination holds the entries of the source, and deleted_files is the
\* number of destination entries that were absent from the source.
DeleteMirrorsAnySession ==
    (Finished /\ ~options.dry_run /\ options.delete) =>
        /\ Entries(dstTree) = Entries(srcTree)
        /\ stats.deleted_files = Cardinality(ExtrasAtStart)

\* C4 amended: the same, for recursive sessions without backup and without
\* remove-source-files.
DeleteMirrors ==
    (Finished /\ ~options.dry_run /\ options.delete /\ options.recursive
        /\ ~options.backup /\ ~options.remove_source_files) =>
        /\ Entries(dstTree) = Entries(srcTree)
        /\ stats.deleted_files = Cardinality(ExtrasAtStart)

\* C4 witness: a successful session that removed an extra directory and the
\* extra file in it, and created a file
DeleteMirrorsWitness ==
    /\ Finished /\ ~options.dry_run /\ options.delete /\ options.recursive
    /\ ~options.backup /\ ~options.remove_source_files
    /\ ExtrasAtStart = {"d", "d/g"}
    /\ exists(srcTree0, "f") /\ ~exists(dstTree0, "f")
    /\ stats.deleted_files = 2

\* what a session on the trees at its start transfers and deletes
WouldTransfer ==
    {p \in keys(scan(srcTree0, options.recursive)) :
        /\ srcTree0[p].kind = "file"
        /\ should_sync(options, from_metadata(srcTree0[p]),
                       scan(dstTree0, options.recursive)[p],
                       srcTree0[p].bytes, dstTree0[p].bytes)}

WouldDelete ==
    IF options.delete
    THEN extra_entries(scan(srcTree0, options.recursive), scan(dstTree0, options.recursive))
    ELSE {}

\* C5: with dry_run neither tree is ever changed, and a finished session
\* reports as transferred_files and deleted_files the numbers of files that
\* would have been transferred and deleted.
DryRunNoMutation ==
    options.dry_run =>
        /\ srcTree = srcTree0
        /\ dstTree = dstTree0
        /\ Finished => /\ stats.transferred_files = Cardinality(WouldTransfer)
                       /\ stats.deleted_files = Cardinality(WouldDelete)

\* C7: delete_extra_files runs at most once in a session, and with delete
\* and no timing flag it runs in the "after" position.
OneDeletePass ==
    /\ Len(deletePasses) <= 1
    /\ (Finished /\ options.delete /\ ~options.delete_before
            /\ ~options.delete_during /\ ~options.delete_after)
          => deletePasses = <<"after">>

\* C8: with delete-before no deletion follows a file transfer; with
\* delete-after, or delete without a timing flag, no file transfer follows a
\* deletion; and no entry of the source map is ever deleted.
DeleteOrdering ==
    /\ (options.delete /\ options.delete_before) => ~hist.delAfterXfer
    /\ (options.delete /\ (options.delete_after
                           \/ (~options.delete_before /\ ~options.delete_during)))
          => ~hist.xferAfterDel
    /\ ~hist.deletedSourceEntry

-----------------------------------------------------------------------------
(* Properties of the rolling checksum                                      *)

\* C11: rolling consistency.  Initialising over W[0..L] and applying roll i
\* times gives the weak checksum of a fresh RollingChecksum over W[i..i+L],
\* for window lengths below and above 65535.
RollingConsistency ==
    rpc = "done" => checksum(rolled) = checksum(fresh)

\* C11 witness: a window longer than 65535 bytes was rolled twice, and the
\* checksum changed on the way
RollingConsistencyWitness ==
    /\ rpc = "done"
    /\ rL > 65535
    /\ rI = 2
    /\ rW.mul # 0
    /\ checksum(rolled) = checksum(fresh)
    /\ rolled.b # 0

-----------------------------------------------------------------------------
(* Properties of the varint codec                                          *)

\* the fewest bytes among the widths write_varint has for a value
MinVarintWidth(val) ==
    IF val >= 0 /\ val <= 127 THEN 1
    ELSE IF val >= -128 /\ val <= -1 THEN 2
    ELSE IF val >= -32768 /\ val <= 32767 THEN 3
    ELSE 5

\* C12: varint round-trip.  read_varint on the bytes of write_varint(x)
\* returns x and consumes exactly those bytes, and the bytes written are the
\* minimum-width form.
VarintRoundTrip ==
    vpc = "done" =>
        /\ vres.ok
        /\ vres.value = vx
        /\ vres.consumed = Len(vbytes)
        /\ Len(vbytes) = MinVarintWidth(vx)

\* the ranges of the inner stream that hold the payloads of the frames i
\* with keep[i], in arrival order
RECURSIVE payload_ranges(_, _, _)
payload_ranges(wire, pos, keep) ==
    IF wire = <<>> THEN <<>>
    ELSE LET f == Head(wire)
             rest == payload_ranges(Tail(wire), pos + 4 + f.len, Tail(keep))
         IN IF Head(keep) THEN <<[start |-> pos + 4, len |-> f.len]>> \o rest
            ELSE rest

RECURSIVE RangesLen(_)
RangesLen(rs) == IF rs = <<>> THEN 0 ELSE Head(rs).len + RangesLen(Tail(rs))

\* the position in the inner stream of byte k of the bytes rs denotes
RECURSIVE RangesPos(_, _)
RangesPos(rs, k) ==
    IF k < Head(rs).len THEN Head(rs).start + k
    ELSE RangesPos(Tail(rs), k - Head(rs).len)

\* rs1 and rs2 denote the same bytes: the same number of bytes, and the same
\* byte at each of the first CompareMax places (all of them, for payloads of
\* SmallPayloads, which have two bytes at most)
CompareMax == 2 * MaxFrames
SameBytes(rs1, rs2) ==
    /\ RangesLen(rs1) = RangesLen(rs2)
    /\ \A k \in 0..(CompareMax - 1) :
          k < RangesLen(rs1) =>
              WireAt(mwire, RangesPos(rs1, k)) = WireAt(mwire, RangesPos(rs2, k))

IsWrite(f) == f.by = "write"
Writes == [i \in 1..Len(mwire) |-> IsWrite(mwire[i])]
OnlyWrites == \A i \in 1..Len(mwire) : Writes[i]
ReaderDone == mpc \in {"eof", "err"}

\* C13: the framer carries any write intact.  When everything on the inner
\* stream was put there by write, every frame's header length is the number
\* of payload bytes that follow it and is below 2^24, and once the reader is
\* through it has returned exactly the bytes written, in order.
MuxCarriesWrites ==
    OnlyWrites =>
        /\ \A i \in 1..Len(mwire) :
              /\ header_length(mvariant, mwire[i].hdr) = mwire[i].len
              /\ mwire[i].len < LenField
        /\ ReaderDone =>
              /\ mpc = "eof"
              /\ SameBytes(mout, payload_ranges(mwire, 0, Writes))

\* every frame on the inner stream is well-formed (its header length is its
\* payload's length)
WellFormed == \A i \in 1..Len(mwire) : mwire[i].len < LenField
IsReport(f) == f.by = "peer" /\ header_tag(mvariant, f.hdr) - MPLEX_BASE \in 1..3
Reports == [i \in 1..Len(mwire) |-> IsReport(mwire[i])]

\* C14: message frames leave the data stream intact.  On a stream of
\* well-formed DATA and message frames the reader ends at EOF and not in an
\* error, has returned exactly the DATA payloads in arrival order, and has
\* written every error, info and warning payload to the message sink.
MuxMessagesLeaveData ==
    (WellFormed /\ ReaderDone) =>
        /\ mpc = "eof"
        /\ SameBytes(mout, payload_ranges(mwire, 0, Writes))
        /\ [i \in 1..Len(SelectSeq(msink, LAMBDA m : m.code \in 1..3)) |->
               [start |-> SelectSeq(msink, LAMBDA m : m.code \in 1..3)[i].start,
                len |-> SelectSeq(msink, LAMBDA m : m.code \in 1..3)[i].len]]
           = payload_ranges(mwire, 0, Reports)

\* C15: negotiate(local, remote) succeeds exactly when both versions are at
\* least PROTOCOL_VERSION_MIN and then returns the older of the two; otherwise
\* it fails with IncompatibleProtocol carrying both versions, whichever side
\* is the older one.
NegotiateMin ==
    npc = "done" =>
        IF nlocal >= PROTOCOL_VERSION_MIN /\ nremote >= PROTOCOL_VERSION_MIN
        THEN /\ nres.ok
             /\ nres.version \in {nlocal, nremote}
             /\ nres.version <= nlocal
             /\ nres.version <= nremote
        ELSE /\ ~nres.ok
             /\ nres.local = nlocal
             /\ nres.remote = nremote

NegotiateMinWitness ==
    /\ npc = "done"
    /\ nlocal = PROTOCOL_VERSION_MAX
    /\ nremote = PROTOCOL_VERSION_MIN - 1
    /\ ~nres.ok
    /\ nres.remote = PROTOCOL_VERSION_MIN - 1

\* what may not be exchanged with a peer that is too old
SessionData == {"recv_module_name", "file_list", "file_data"}

\* C16: in every handshake a peer announcing a version below
\* PROTOCOL_VERSION_MIN ends the session with the incompatible-protocol
\* error before a module name, a file list or file data is exchanged.
OldPeerRejected ==
    (hremote # <<>> /\ hremote[1] < PROTOCOL_VERSION_MIN) =>
        /\ \A i \in 1..Len(hlog) : hlog[i] \notin SessionData
        /\ hpc = "end" => hresult \in {"incompatible", "io"}

\* entry e as the receiver would hold it
EntryBits(e) ==
    [path |-> e.path, mode |-> u32_bytes(e.mode), len |-> i64_bytes(e.len),
     modtime |-> i64_bytes(e.modtime), is_dir |-> e.is_dir]
Received(e) ==
    [path |-> e.path, mode |-> e.mode, len |-> e.len, modtime |-> e.modtime,
     is_dir |-> e.is_dir]

\* C17: the file-list codec keeps encoder and decoder in step.  Decoding what
\* send_file_list wrote ends without an error exactly behind the end-of-list
\* marker, yields as many entries as were sent, each with the path, length,
\* mtime, mode and directory flag that was sent, and leaves the decoder's
\* last-entry state equal to the encoder's.
FlistInStep ==
    lpc = "done" =>
        /\ lresult = "ok"
        /\ lrpos = Len(lwire)
        /\ Len(lrecv) = Len(lfiles)
        /\ \A i \in 1..Len(lfiles) :
              i <= Len(lrecv) => Received(lrecv[i]) = EntryBits(lfiles[i])
        /\ lrstate = StateBits(lsstate)

\* C18: in-place mode with the destination as reference and output.  When
\* the reconstruction returns Ok, the destination holds exactly the bytes
\* the instruction stream denotes: each literal as it is, each matched block
\* as the block of the destination's content before the transfer.
InplaceDenotes ==
    (ipc = "done" /\ iresult = "ok") => ifile = apply_delta(iOld, idelta, ibs, 1)

\* where create_backup puts the previous content of destination file p
BackupOf(p) ==
    IF options.backup_dir = <<>> THEN dstTree[backup_path(p)]
    ELSE bakTree[file_name(p)]

\* C19: with backup, when the session has ended every destination file that
\* a transfer of the session overwrote has its bytes of before the transfer
\* at its backup location: <D><suffix>, or <backup-dir>/<name>.
BackupHolds ==
    (spc = "done" /\ sresult = "ok" /\ options.backup) =>
        \A o \in hist.overwritten :
            BackupOf(o[1]).kind = "file" /\ BackupOf(o[1]).bytes = o[2]

\* C20: remove-source-files.  A source file disappears only in the turn of
\* the per-file loop that transferred it, with remove_source_files set and
\* not in a dry run, and never in a turn that skipped it; a failing unlink
\* leaves the session in the loop with no error, and a session that returns
\* Ok has been through every file.
RemoveSourceStep ==
    /\ \A p \in SyncPaths :
          (exists(srcTree, p) /\ ~exists(srcTree', p)) =>
              /\ options.remove_source_files
              /\ ~options.dry_run
              /\ p \in todoXfer
              /\ p \notin todoXfer'
              /\ stats'.transferred_files = stats.transferred_files + 1
              /\ dstTree'[p].kind = "file"
    /\ (hist'.unlinkFailed # hist.unlinkFailed) =>
          /\ spc' = "transfer"
          /\ sresult' = "none"
          /\ srcTree' = srcTree
RemoveSourceFiles ==
    /\ [][RemoveSourceStep]_vars
    /\ []((spc = "done" /\ sresult = "ok") => todoXfer = {})
    /\ [](options.dry_run => srcTree = srcTree0)

\* C20 witness: an unlink failed, a later file was transferred and its
\* source removed, and the session returned Ok.
RemoveSourceFilesWitness ==
    /\ spc = "done"
    /\ sresult = "ok"
    /\ options.remove_source_files
    /\ hist.unlinkFailed # {}
    /\ \E p \in hist.afterFailedUnlink :
          exists(srcTree0, p) /\ ~exists(srcTree, p)

\* C21: a file-level error does not stop the session.  While entries of the
\* per-file loop are left, no step ends the session: the loop stays in the
\* transfer phase with sync not yet returned, so that every later file is
\* still visited and sync returns Ok(stats).
FileErrorStep ==
    (spc = "transfer" /\ todoXfer # {}) =>
        (spc' = "transfer" /\ sresult' = "none")
FileErrorGoesOn == [][FileErrorStep]_vars

\* C22: the exit status is 0 only on successful completion.  When a local,
\* remote-shell or daemon sync has returned Err to main, the process does not
\* end with status 0.
ExitStatus ==
    (epc = "exit" /\ efatal # {}) => estatus # <<EXIT_SUCCESS>>

\* some pattern of the options, or some pattern line of a rule file that can
\* be read, does not compile
HasInvalidPattern ==
    /\ gpc # "idle"
    /\ \E i \in 1..Len(engine_calls(gopts)) :
          /\ engine_calls(gopts)[i].call = "new"
          /\ invalid_pattern(engine_calls(gopts)[i].pattern)
\* a call before the first pattern that does not compile fails to open its
\* rule file
OpenFailsFirst ==
    \E i \in 1..Len(engine_calls(gopts)) :
        /\ engine_calls(gopts)[i].call = "open"
        /\ \A j \in 1..(i - 1) :
              engine_calls(gopts)[j].call = "new"
              => ~invalid_pattern(engine_calls(gopts)[j].pattern)

WritesInsideModule ==
    \A i \in 1..Len(kwritten) :
        is_below(kwritten[i].at, kmodules[kmodule[1]].path)

\* C26: for a module with auth_users the daemon writes the file list only
\* after the client has given a username that is listed in auth_users
\* together with the secret the secrets file records for that username.
ListOnlyForAuthUsers ==
    (klisted /\ kmodules[kmodule[1]].auth_users # <<>>) =>
        /\ kauth # <<>>
        /\ kauth[1].user \in kmodules[kmodule[1]].auth_users[1]
        /\ \E i \in 1..Len(kmodules[kmodule[1]].secrets) :
              kmodules[kmodule[1]].secrets[i] = kauth[1]

\* C27: an upload of DaemonClient into a writable module without auth_users
\* ends successfully on both sides, whatever the local tree is: the daemon
\* reads as many records as the client announced and sent.
UploadEndsWell ==
    (/\ ccall.kind = "upload"
     /\ kmodules[ccall.module].auth_users = <<>>
     /\ ~kmodules[ccall.module].read_only
     /\ cres # "none" /\ kres # "none") =>
        (cres = "ok" /\ kres = "ok" /\ kleft = 0)

\* C28: a download or upload of DaemonClient never leaves the client and
\* the daemon both waiting: as long as one of them has not returned, one
\* of them can take a step.
SessionNeverStuck ==
    (ccall.kind \in {"download", "upload"} /\ (cres = "none" \/ kres = "none"))
        => ENABLED NextSession

\* the two sessions have ended with the messages and the module contents of
\* one of the two orders of running them one after the other
AsOneAfterTheOther ==
    \E first \in Tasks : \E second \in Tasks \ {first} :
        \E r \in {one_after_the_other(tdisk0, tsessions, first, second)} :
            /\ tdisk = r.disk
            /\ \A i \in Tasks : tlog[i] = r.log[i]

TasksEnded == \A i \in Tasks : tpc[i] = "end"

NdxRoundTrip ==
    (xpc = "done" /\ xproto >= 30) =>
        /\ xok
        /\ xout = xseq
        /\ xpos = Len(xwire)
        /\ xrstates = xwstates

\* C30: for varint30 and for varlong30, the reader applied to the bytes the
\* writer wrote for x returns x and consumes exactly those bytes.
Codec30RoundTrip ==
    qpc = "done" =>
        /\ qread.ok
        /\ qread.v = i64_bytes(qx)
        /\ qread.p = Len(qbytes)

\* C31: a frame starts with a 4-byte little-endian header, the tag in the
\* top byte and the length in the lower 24 bits, whichever framer wrote it,
\* and either framer reads the other's frame with the same tag, length and
\* payload.
FramersAgree ==
    /\ ypc # "write" =>
          ywire[1].hdr = <<Len(ybuf) % 256, (Len(ybuf) \div 256) % 256,
                           Len(ybuf) \div 65536, MPLEX_BASE + MSG_DATA>>
    /\ ypc = "done" =>
          /\ yread.res = "ok"
          /\ yread.tag = MPLEX_BASE + MSG_DATA
          /\ yread.length = Len(ybuf)
          /\ yread.payload = ybuf

\* C32: in atomic mode the temporary file never outlives a failed call:
\* when reconstruct_file has returned an error, from an instruction or from
\* the final rename, no file is left at the temporary path.
TempRemovedOnError ==
    (dpc = "done" /\ dresult = "err") => ~dfs[partial_path(outPath)].exists

\* C33: the delete pass never removes a destination entry the filter rules
\* exclude: every file of the destination whose path is excluded is still
\* there, also when it lies in a directory that the source does not have.
ExcludedSurvive ==
    \A p \in PurgePaths :
        (zdst0[p] = "file" /\ ~should_include(zrules, p)) => zdst[p] = "file"

\* C34: identical source and reference.  When the source holds the same bytes
\* as the reference, the delta computed from the reference's signatures has
\* one MatchedBlock per block of the file, ceil(S / B) of them, and no
\* LiteralData, whatever the size and the block size.
IdenticalAllMatched ==
    (dpc \in {"open", "apply", "done"} /\ fSrc = fRef)
        => /\ Len(delta) = (Len(fSrc) + block_size - 1) \div block_size
           /\ \A i \in 1..Len(delta) : delta[i].kind = "MatchedBlock"

\* C35: shape of the signature list.  generate_checksums returns ceil(S / B)
\* signatures, numbered 0, 1, ... in order; signature i is the checksum pair
\* of the bytes [i*B, min((i+1)*B, S)) of the reference, so only the last block
\* may be shorter than B, and the list is empty for an empty reference.
SignaturesCoverBlocks ==
    dpc \in {"delta", "open", "apply", "done"}
        => /\ Len(checksums) = (Len(fRef) + block_size - 1) \div block_size
           /\ \A i \in 1..Len(checksums) :
                 LET block == Slice(fRef, (i - 1) * block_size,
                                    Min(i * block_size, Len(fRef)))
                 IN  /\ checksums[i].index = i - 1
                     /\ checksums[i].weak = checksum(RollingChecksumNew(block))
                     /\ checksums[i].strong = compute_strong_checksum(block)

-----------------------------------------------------------------------------
(* Properties of the parallel signature computation                        *)

\* C36: the parallel path agrees with the sequential one.  The list that
\* compute_block_checksums_parallel collects has its signatures in ascending
\* index order, whichever order the workers took the blocks in, and is equal,
\* element for element, to the list generate_checksums returns for a file of
\* the same bytes and the same block size.
ParallelEqualsSequential ==
    /\ wpc \in {"sequential", "done"} =>
          \A i \in 1..Len(wout) : wout[i].index = i - 1
    /\ wpc = "done" => wout = wseq

-----------------------------------------------------------------------------
(* Properties of the ProtocolStream varints                                *)

\* C37: round trip over the whole i64 range.  read_varint on the bytes that
\* write_varint(x) wrote returns x and consumes exactly those bytes, leaving
\* what follows on the stream; a value in 0..=250 takes one byte, and a value
\* that needs a 16-bit payload (251..=32767 or -32768..=-129) takes three.
ProtocolVarintRoundTrip ==
    jpc = "done" =>
        /\ jread.res = "ok"
        /\ jread.val = jval
        /\ jread.used = Len(jwire) - Len(jtail)
        /\ (fits_signed(jval, 2) /\ jval[7] = 0 /\ jval[8] <= 250)
              => jread.used = 1
        /\ (/\ fits_signed(jval, 2)
            /\ ~fits_signed(jval, 1)
            /\ ~(jval[7] = 0 /\ jval[8] <= 250))
              => jread.used = 3

\* C37 witness: -2^31 - 1, the first value below the i32 range, was written
\* in front of other bytes and read back
ProtocolVarintWitness ==
    /\ jpc = "done"
    /\ jval = <<255, 255, 255, 255, 127, 255, 255, 255>>
    /\ jtail = <<253, 0>>
    /\ jread.used = 9

-----------------------------------------------------------------------------
(* Properties of the statistics of a local session                         *)

\* C38: the statistics account for every entry once.  When sync returns Ok,
\* transferred_files + unchanged_files is the number of entries of the
\* source map that are not directories, and deleted_files is at most the
\* number of entries the destination held when the session started, whatever
\* the delete options are and under dry_run too.
StatsAccountForEntries ==
    (spc = "done" /\ sresult = "ok") =>
        /\ stats.transferred_files + stats.unchanged_files =
              Cardinality({p \in keys(source_map) : source_map[p].kind # "dir"})
        /\ stats.deleted_files <=
              Cardinality({p \in SyncPaths : exists(dstTree0, p)})

-----------------------------------------------------------------------------
(* Properties of --list-only                                               *)

\* C39: with list_only, sync only lists.  No filesystem mutation happens in
\* the session: the destination directory is not created, and the delete and
\* transfer phases are not reached, whatever the other options are.
ListOnlyNoMutation ==
    gopts # <<>> /\ gopts.list_only => gmut = <<>>

====
